---- MODULE Spec2Model ----
(***************************************************************************)
(* A model of the langulo execution pipeline: the 64-bit Word, the         *)
(* emitter (syntax tree -> Words and constant pools), the stream format    *)
(* written by the emitter and read by the VM loader, and the VM dispatch   *)
(* loop.  Unsigned 64-bit quantities are bit vectors (functions from       *)
(* 0..63 to {0,1}), so that masks, shifts and byte encodings are computed  *)
(* the way the code computes them.                                         *)
(***************************************************************************)
EXTENDS Integers, Sequences, FiniteSets, TLC

VARIABLES
    word,           \* a Word object the setters of word/structure.rs act on
    prev,           \* that Word before the last setter call
    op,             \* the last setter call: <<name, argument>>
    build,          \* "debug" or "release": debug assertions and overflow checks
    input,          \* what the run was started from (a test case or a source tree)
    emitter,        \* the Emitter object
    stream,         \* the bytes written by write_to_stream
    vm,             \* the VM object
    mem,            \* the objects allocated so far; an address is an index
    result,         \* <<>>, or <<w>> once finalize has returned w
    repl            \* the REPL loop: its accumulated source and its last output

wordVars == <<word, prev, op>>

runVars == <<build, input, emitter, stream, vm, mem, result, repl>>

allVars == <<word, prev, op, build, input, emitter, stream, vm, mem, result, repl>>

(***************************************************************************)
(* Unsigned 64-bit integers as bit vectors                                 *)
(***************************************************************************)
WordBits == 64

BitIdx == 0..(WordBits - 1)

Zero64 == [i \in BitIdx |-> 0]

BitAnd(a, b) == [i \in BitIdx |-> a[i] * b[i]]

BitOr(a, b) == [i \in BitIdx |-> IF a[i] + b[i] > 0 THEN 1 ELSE 0]

BitNot(a) == [i \in BitIdx |-> 1 - a[i]]

\* a << n on u64: bits shifted past bit 63 are lost
Shl(a, n) == [i \in BitIdx |-> IF i >= n THEN a[i - n] ELSE 0]

\* a >> n on u64
Shr(a, n) == [i \in BitIdx |-> IF i + n < WordBits THEN a[i + n] ELSE 0]

RECURSIVE Pow2Seq(_)
Pow2Seq(n) == IF n = 0 THEN <<1>> ELSE LET s == Pow2Seq(n - 1) IN Append(s, 2 * s[n])

\* 2^0 .. 2^30
Pow2Table == Pow2Seq(30)

Pow2(n) == Pow2Table[n + 1]

\* bit i of a natural number below 2^31
NatBit(n, i) == IF i > 30 THEN 0 ELSE (n \div Pow2(i)) % 2

\* a natural number below 2^31 as u64
U64(n) == [i \in BitIdx |-> NatBit(n, i)]

\* i32 -> usize/u64 cast (`value as _`): two's complement, sign-extended
I32AsU64(n) ==
    IF n >= 0 THEN U64(n)
    ELSE [i \in BitIdx |-> IF i > 30 THEN 1 ELSE NatBit((n + 2147483647) + 1, i)]

RECURSIVE SumBits(_, _)
SumBits(a, i) == IF i < 0 THEN 0 ELSE a[i] * Pow2(i) + SumBits(a, i - 1)

\* the number held in bits 0..30 (a usize index, a field value)
ToNat(a) == SumBits(a, 30)

\* u32 -> i32 cast (`as i32`) of the low 32 bits
ToI32(a) == IF a[31] = 1 THEN (SumBits(a, 30) - 2147483647) - 1 ELSE SumBits(a, 30)

\* a as u32: the low 32 bits
Low32(a) == [i \in BitIdx |-> IF i < 32 THEN a[i] ELSE 0]

RECURSIVE ULessFrom(_, _, _)
ULessFrom(a, b, i) ==
    IF i < 0 THEN FALSE
    ELSE IF a[i] # b[i] THEN a[i] < b[i]
    ELSE ULessFrom(a, b, i - 1)

\* unsigned a < b
ULess(a, b) == ULessFrom(a, b, WordBits - 1)

(***************************************************************************)
(* word/structure.rs: layout                                               *)
(***************************************************************************)
bitmask(from, to_excluded) ==
    LET to == to_excluded - 1 IN
    IF from > 63 \/ to > 63 \/ from > to THEN Zero64
    ELSE [i \in BitIdx |-> IF i >= from /\ i <= to THEN 1 ELSE 0]

ValueTagNames ==
    <<"Int", "Bool", "Char", "FnPtr", "FloatPtr", "StrPtr", "TablePtr", "OptionPtr">>

\* the tag the VM and the emitter use for the `no` and `_` sentinels; its
\* declaration is not in the enum above
ValueTagUndeclared == <<"Special">>

ValueTag == ValueTagNames \o ValueTagUndeclared

OpCodeNames ==
    <<"Value", "ReadFromMap", "Stop", "Return", "Jump", "JumpIfFalse", "Call",
      "CallBuiltin", "SetLocal", "SetLocalThis", "GetLocal", "SetGlobal",
      "GetGlobal", "IndexGet", "IndexSet", "WrapInOption", "UnwrapOption",
      "Print", "Cast", "Add", "Subtract", "Multiply", "Divide", "Modulo",
      "Power", "Negate", "LogicalAnd", "LogicalOr", "LogicalXor", "GreaterThan",
      "LessThan", "Equals", "NotEquals", "GreaterThanEq", "LessThanEq",
      "PrintThis", "CastThis", "AddThis", "SubtractThis", "MultiplyThis",
      "DivideThis", "ModuloThis", "PowerThis", "NegateThis", "LogicalAndThis",
      "LogicalOrThis", "LogicalXorThis", "GreaterThanThis", "LessThanThis",
      "EqualsThis", "NotEqualsThis", "GreaterThanEqThis", "LessThanEqThis">>

\* opcodes the emitter and the VM name that the enum above does not declare
OpCodeUndeclared ==
    <<"JumpIfNo", "WrapInOptionThis", "UnwrapOptionThis", "IndexGetThis">>

OpCode == OpCodeNames \o OpCodeUndeclared

\* `x as u64` of an enum variant
EnumNum(names, name) == (CHOOSE i \in 1..Len(names) : names[i] = name) - 1

\* FromPrimitive::from_u64(n).unwrap(): panics ("INVALID") on an undeclared number
EnumFrom(names, n) == IF n < Len(names) THEN names[n + 1] ELSE "INVALID"

TAG_START == 0
OPCODE_START == 4
AUX_START == 10
PTR_START == 32

TAG_MASK == bitmask(TAG_START, OPCODE_START)
OPCODE_MASK == bitmask(OPCODE_START, AUX_START)
AUX_MASK == bitmask(AUX_START, PTR_START)
PTR_MASK == bitmask(PTR_START, 64)

(***************************************************************************)
(* word/structure.rs: accessors, constructor, setters                      *)
(***************************************************************************)
ptr(w) == Shr(BitAnd(w, PTR_MASK), PTR_START)

aux(w) == ToNat(Shr(BitAnd(w, AUX_MASK), AUX_START))

opcode(w) == EnumFrom(OpCode, ToNat(Shr(BitAnd(w, OPCODE_MASK), OPCODE_START)))

tag(w) == EnumFrom(ValueTag, ToNat(BitAnd(w, TAG_MASK)))

\* the payload as u32
value(w) == Low32(Shr(BitAnd(w, PTR_MASK), PTR_START))

WordNew(p, op_code, t) ==
    BitOr(BitOr(BitAnd(Shl(p, PTR_START), PTR_MASK),
                BitAnd(Shl(U64(EnumNum(OpCode, op_code)), OPCODE_START), OPCODE_MASK)),
          BitAnd(U64(EnumNum(ValueTag, t)), TAG_MASK))

is_tag_for_heap(w) == EnumNum(ValueTag, tag(w)) > EnumNum(ValueTag, "Char")

\* an is_embeddable that also accepts pool references
is_embeddable_or_reference(w) == opcode(w) \in {"Value", "ReadFromMap"}

is_embeddable(w) == opcode(w) = "Value"

set_tag(w, new_tag) ==
    BitOr(BitAnd(w, BitNot(TAG_MASK)), Shl(U64(EnumNum(ValueTag, new_tag)), TAG_START))

set_opcode(w, new_opcode) ==
    BitOr(BitAnd(w, BitNot(OPCODE_MASK)),
          Shl(U64(EnumNum(OpCode, new_opcode)), OPCODE_START))

\* new_aux: u32
set_aux(w, new_aux) ==
    BitOr(BitAnd(w, BitNot(AUX_MASK)), Shl(Low32(new_aux), AUX_START))

\* value: the payload to store
set_value(w, v) == BitOr(BitAnd(w, BitNot(PTR_MASK)), Shl(v, PTR_START))

update_stack_value(w, v, opc) ==
    BitOr(BitOr(BitAnd(BitAnd(w, BitNot(PTR_MASK)), BitNot(OPCODE_MASK)),
                Shl(Low32(v), PTR_START)),
          BitAnd(Shl(U64(EnumNum(OpCode, opc)), OPCODE_START), OPCODE_MASK))

replace_with_stack_value(w, v, opc, t) ==
    BitOr(BitOr(BitOr(BitAnd(BitAnd(BitAnd(w, BitNot(PTR_MASK)), BitNot(OPCODE_MASK)),
                             BitNot(TAG_MASK)),
                      Shl(Low32(v), PTR_START)),
                BitAnd(Shl(U64(EnumNum(OpCode, opc)), OPCODE_START), OPCODE_MASK)),
          BitAnd(Shl(U64(EnumNum(ValueTag, t)), TAG_START), TAG_MASK))

from_u64(raw) == raw

(***************************************************************************)
(* word/conversions.rs: constructors and finalizers of stack values        *)
(***************************************************************************)
Word_bool(b, opc) == WordNew(U64(IF b THEN 1 ELSE 0), opc, "Bool")

Word_int(n, opc) == WordNew(I32AsU64(n), opc, "Int")

\* value as u8: a char is modelled by its code point, truncated to 8 bits
Word_char(c, opc) == WordNew(U64(c % 256), opc, "Char")

to_bool(w) == value(w) = U64(1)

to_int(w) == ToI32(value(w))

to_char(w) == ToNat(value(w)) % 256

(***************************************************************************)
(* i32 and f64 arithmetic as the operators of the code compute it          *)
(***************************************************************************)
MaxI32 == 2147483647

MinI32 == (-2147483647) - 1

Abs(n) == IF n < 0 THEN -n ELSE n

AddOverflows(a, b) ==
    \/ b > 0 /\ a > MaxI32 - b
    \/ b < 0 /\ a < MinI32 - b

SubOverflows(a, b) ==
    \/ b < 0 /\ a > MaxI32 + b
    \/ b > 0 /\ a < MinI32 + b

MulOverflows(a, b) ==
    IF a = 0 \/ b = 0 THEN FALSE
    ELSE IF a = MinI32 THEN b # 1
    ELSE IF b = MinI32 THEN a # 1
    ELSE LET x == Abs(a)
             y == Abs(b)
             q == MaxI32 \div y
         IN IF (a < 0) = (b < 0) THEN x > q
            ELSE x > q /\ ~(x = q + 1 /\ MaxI32 % y = y - 1)

\* an i32 as the two 16-bit halves of its two's complement pattern
Half == Pow2(16)

HiHalf(n) == (n \div Half) % Half

LoHalf(n) == n % Half

FromHalves(hi, lo) == (IF hi >= Half \div 2 THEN hi - Half ELSE hi) * Half + lo

\* x * y mod 2^16 for 16-bit x, y
MulLow16(x, y) == (((((x \div 256) * y) % 256) * 256) + ((x % 256) * y)) % Half

\* bits 16..31 of x * y for 16-bit x, y
MulHigh16(x, y) ==
    LET t1 == (x \div 256) * y
        t0 == (x % 256) * y
    IN ((t1 \div 256) + (t0 \div Half) + ((((t1 % 256) * 256) + (t0 % Half)) \div Half)) % Half

\* the wrapped i32 results (what a release build computes)
WrapAdd(a, b) ==
    IF ~AddOverflows(a, b) THEN a + b
    ELSE IF a > 0 THEN (a + MinI32) + (b + MinI32)
    ELSE (a - MinI32) + (b - MinI32)

WrapSub(a, b) ==
    IF ~SubOverflows(a, b) THEN a - b
    ELSE IF a >= 0 THEN (a + MinI32) - (b - MinI32)
    ELSE (a - MinI32) - (b + MinI32)

WrapMul(a, b) ==
    IF ~MulOverflows(a, b) THEN a * b
    ELSE FromHalves((MulHigh16(LoHalf(a), LoHalf(b)) + MulLow16(HiHalf(a), LoHalf(b))
                        + MulLow16(LoHalf(a), HiHalf(b))) % Half,
                    MulLow16(LoHalf(a), LoHalf(b)))

\* i32 `/`: truncates toward zero (b # 0, not MinI32 / -1)
TruncDiv(a, b) ==
    IF b = 1 THEN a
    ELSE IF b = MinI32 THEN (IF a = MinI32 THEN 1 ELSE 0)
    ELSE LET y == Abs(b)
             q == IF a = MinI32
                  THEN (MaxI32 \div y) + (IF MaxI32 % y = y - 1 THEN 1 ELSE 0)
                  ELSE Abs(a) \div y
         IN IF (a < 0) = (b < 0) THEN q ELSE -q

\* i32 `%`: the remainder of the truncating division, with the dividend's sign
TruncRem(a, b) == a - TruncDiv(a, b) * b

\* f64 values are modelled by exact rationals <<n, d>>, d > 0, in lowest terms
RECURSIVE Gcd(_, _)
Gcd(a, b) == IF b = 0 THEN a ELSE Gcd(b, a % b)

FNorm(n, d) ==
    LET g == Gcd(Abs(n), Abs(d))
        s == IF d < 0 THEN -1 ELSE 1
    IN IF n = 0 THEN <<0, 1>> ELSE <<s * (n \div g), s * (d \div g)>>

FAdd(x, y) == FNorm(x[1] * y[2] + y[1] * x[2], x[2] * y[2])

FSub(x, y) == FNorm(x[1] * y[2] - y[1] * x[2], x[2] * y[2])

FMul(x, y) == FNorm(x[1] * y[1], x[2] * y[2])

FDiv(x, y) == FNorm(x[1] * y[2], x[2] * y[1])

\* f64 `%`: x - trunc(x / y) * y
FRem(x, y) ==
    LET q == FDiv(x, y)
        t == IF q[1] < 0 THEN -(Abs(q[1]) \div q[2]) ELSE q[1] \div q[2]
    IN FSub(x, FMul(<<t, 1>>, y))

FLess(x, y) == x[1] * y[2] < y[1] * x[2]

FZero == <<0, 1>>

(***************************************************************************)
(* word/heap.rs: the heap.  allocate() returns a fresh address; the model  *)
(* numbers the allocations 1, 2, ... and keeps the objects in a sequence.  *)
(***************************************************************************)
HeapObj(kind, val) == [kind |-> kind, val |-> val]

\* heap_write!: allocate, build the Word, store the value
heap_write(heap, kind, val, t, opc) ==
    [w |-> WordNew(U64(Len(heap) + 1), opc, t), heap |-> Append(heap, HeapObj(kind, val))]

\* heap_read! through the payload: the object a Word points at, when there is
\* one; only a Word of a pointer tag carries an address the allocator gave out
Points(heap, w, kind) ==
    /\ tag(w) \in {"FloatPtr", "StrPtr", "TablePtr", "OptionPtr"}
    /\ value(w)[31] = 0
    /\ ToNat(value(w)) \in 1..Len(heap)
    /\ heap[ToNat(value(w))].kind = kind

heap_read(heap, w) == heap[ToNat(value(w))].val

\* the `no` literal and the default table arm: Words of the Special tag
NOOPTION == WordNew(U64(1), "Value", "Special")

DEFAULTTABLEARM == WordNew(U64(0), "Value", "Special")

(***************************************************************************)
(* word/conversions.rs: heap constructors, PartialEq, PartialOrd           *)
(***************************************************************************)
\* an in-place operation's outcome: "ok" with the new self Word and heap,
\* "err" (a LanguloErr is returned), "panic" (the thread panics) or "ub"
\* (a payload that is no address of the expected object is dereferenced)
Ok(w, heap) == [res |-> "ok", w |-> w, heap |-> heap, msg |-> ""]

Err(msg) == [res |-> "err", w |-> Zero64, heap |-> <<>>, msg |-> msg]

Panic(msg) == [res |-> "panic", w |-> Zero64, heap |-> <<>>, msg |-> msg]

UB == [res |-> "ub", w |-> Zero64, heap |-> <<>>, msg |-> "invalid dereference"]

Word_float(heap, f, opc) == heap_write(heap, "float", f, "FloatPtr", opc)

Word_str(heap, str, opc) == heap_write(heap, "str", str, "StrPtr", opc)

Word_table(heap, tbl, opc) == heap_write(heap, "table", tbl, "TablePtr", opc)

\* inner: <<>> for None, <<w>> for Some(w)
Word_option(heap, inner, opc) == heap_write(heap, "option", inner, "OptionPtr", opc)

\* lexicographic order of byte strings
RECURSIVE StrLess(_, _)
StrLess(s, t) ==
    IF t = <<>> THEN FALSE
    ELSE IF s = <<>> THEN TRUE
    ELSE IF Head(s) # Head(t) THEN Head(s) < Head(t)
    ELSE StrLess(Tail(s), Tail(t))

\* PartialEq::eq: "true" / "false" / "panic" / "ub"
word_eq(heap, a, b) ==
    IF tag(a) # tag(b) THEN "false"
    ELSE IF tag(a) \in {"Int", "Bool", "Char"}
         THEN (IF value(a) = value(b) THEN "true" ELSE "false")
    ELSE IF tag(a) = "FloatPtr"
         THEN IF ~(Points(heap, a, "float") /\ Points(heap, b, "float")) THEN "ub"
              ELSE IF heap_read(heap, a) = heap_read(heap, b) THEN "true" ELSE "false"
    ELSE IF tag(a) = "StrPtr"
         THEN IF ~(Points(heap, a, "str") /\ Points(heap, b, "str")) THEN "ub"
              ELSE IF heap_read(heap, a) = heap_read(heap, b) THEN "true" ELSE "false"
    ELSE "panic"

\* PartialOrd::partial_cmp: "lt" / "eq" / "gt" / "panic" / "ub"
Ordering(lt, eq) == IF lt THEN "lt" ELSE IF eq THEN "eq" ELSE "gt"

partial_cmp(heap, a, b, debug) ==
    IF debug /\ tag(a) # tag(b) THEN "panic"
    ELSE IF tag(a) \in {"Int", "Bool", "Char"}
         THEN Ordering(ULess(value(a), value(b)), value(a) = value(b))
    ELSE IF tag(a) = "FloatPtr"
         THEN IF ~(Points(heap, a, "float") /\ Points(heap, b, "float")) THEN "ub"
              ELSE Ordering(FLess(heap_read(heap, a), heap_read(heap, b)),
                            heap_read(heap, a) = heap_read(heap, b))
    ELSE IF tag(a) = "StrPtr"
         THEN IF ~(Points(heap, a, "str") /\ Points(heap, b, "str")) THEN "ub"
              ELSE Ordering(StrLess(heap_read(heap, a), heap_read(heap, b)),
                            heap_read(heap, a) = heap_read(heap, b))
    ELSE "panic"

\* update_heap_value: overwrite the object self points at, set the opcode
update_heap_value(heap, w, val, opc) ==
    Ok(BitOr(BitAnd(w, BitNot(OPCODE_MASK)),
             BitAnd(Shl(U64(EnumNum(OpCode, opc)), OPCODE_START), OPCODE_MASK)),
       [heap EXCEPT ![ToNat(value(w))].val = val])

(***************************************************************************)
(* vm/word/operations.rs: the in-place operators.  `debug` tells whether   *)
(* the build keeps debug assertions and overflow checks.                   *)
(***************************************************************************)
ArithTags == {"Int", "FloatPtr"}

\* the debug assertions every arithmetic operator opens with
ArithAsserts(self, rhs, debug) ==
    debug /\ (tag(rhs) \notin ArithTags \/ tag(self) # tag(rhs))

\* store an i32 result; an overflowing one panics in a debug build and
\* wraps in a release build
IntResult(heap, self, overflows, wrapped, debug) ==
    IF overflows /\ debug THEN Panic("arithmetic overflow")
    ELSE Ok(update_stack_value(self, I32AsU64(wrapped), "Value"), heap)

FloatOperands(heap, self, rhs) == Points(heap, self, "float") /\ Points(heap, rhs, "float")

add_inplace(heap, self, rhs, debug) ==
    IF ArithAsserts(self, rhs, debug) THEN Panic("assertion failed")
    ELSE IF tag(self) = "Int"
         THEN IntResult(heap, self, AddOverflows(to_int(self), to_int(rhs)),
                        WrapAdd(to_int(self), to_int(rhs)), debug)
    ELSE IF tag(self) = "FloatPtr"
         THEN IF ~FloatOperands(heap, self, rhs) THEN UB
              ELSE update_heap_value(heap, self,
                       FAdd(heap_read(heap, self), heap_read(heap, rhs)), "Value")
    ELSE Err("cannot add")

subtract_inplace(heap, self, rhs, debug) ==
    IF ArithAsserts(self, rhs, debug) THEN Panic("assertion failed")
    ELSE IF tag(self) = "Int"
         THEN IntResult(heap, self, SubOverflows(to_int(self), to_int(rhs)),
                        WrapSub(to_int(self), to_int(rhs)), debug)
    ELSE IF tag(self) = "FloatPtr"
         THEN IF ~FloatOperands(heap, self, rhs) THEN UB
              ELSE update_heap_value(heap, self,
                       FSub(heap_read(heap, self), heap_read(heap, rhs)), "Value")
    ELSE Err("cannot sub")

multiply_inplace(heap, self, rhs, debug) ==
    IF ArithAsserts(self, rhs, debug) THEN Panic("assertion failed")
    ELSE IF tag(self) = "Int"
         THEN IntResult(heap, self, MulOverflows(to_int(self), to_int(rhs)),
                        WrapMul(to_int(self), to_int(rhs)), debug)
    ELSE IF tag(self) = "FloatPtr"
         THEN IF ~FloatOperands(heap, self, rhs) THEN UB
              ELSE update_heap_value(heap, self,
                       FMul(heap_read(heap, self), heap_read(heap, rhs)), "Value")
    ELSE Err("cannot mul")

\* a divide_inplace without the test of the divisor
divide_inplace_unchecked(heap, self, rhs, debug) ==
    IF ArithAsserts(self, rhs, debug) THEN Panic("assertion failed")
    ELSE IF tag(self) = "Int"
         THEN IF to_int(rhs) = 0 THEN Ok(update_stack_value(self, U64(0), "Value"), heap)
              ELSE IF to_int(self) = MinI32 /\ to_int(rhs) = -1
                   THEN Panic("attempt to divide with overflow")
              ELSE Ok(update_stack_value(self,
                          I32AsU64(TruncDiv(to_int(self), to_int(rhs))), "Value"), heap)
    ELSE IF tag(self) = "FloatPtr"
         THEN IF ~FloatOperands(heap, self, rhs) THEN UB
              ELSE IF heap_read(heap, rhs) = FZero THEN Ok(self, heap)
              ELSE update_heap_value(heap, self,
                       FDiv(heap_read(heap, self), heap_read(heap, rhs)), "Value")
    ELSE Err("cannot div")

divide_inplace(heap, self, rhs, debug) ==
    IF ArithAsserts(self, rhs, debug) THEN Panic("assertion failed")
    ELSE IF tag(self) = "Int"
         THEN IF to_int(rhs) = 0 THEN Err("division by zero")
              ELSE IF to_int(self) = MinI32 /\ to_int(rhs) = -1
                   THEN Panic("attempt to divide with overflow")
              ELSE Ok(update_stack_value(self,
                          I32AsU64(TruncDiv(to_int(self), to_int(rhs))), "Value"), heap)
    ELSE IF tag(self) = "FloatPtr"
         THEN IF ~FloatOperands(heap, self, rhs) THEN UB
              ELSE IF heap_read(heap, rhs) = FZero THEN Err("division by zero")
              ELSE update_heap_value(heap, self,
                       FDiv(heap_read(heap, self), heap_read(heap, rhs)), "Value")
    ELSE Err("cannot div")

modulo_inplace(heap, self, rhs, debug) ==
    IF ArithAsserts(self, rhs, debug) THEN Panic("assertion failed")
    ELSE IF tag(self) = "Int"
         THEN IF to_int(rhs) = 0 THEN Err("modulo by zero")
              ELSE IF to_int(self) = MinI32 /\ to_int(rhs) = -1
                   THEN Panic("attempt to calculate the remainder with overflow")
              ELSE Ok(update_stack_value(self,
                          I32AsU64(TruncRem(to_int(self), to_int(rhs))), "Value"), heap)
    ELSE IF tag(self) = "FloatPtr"
         THEN IF ~FloatOperands(heap, self, rhs) THEN UB
              ELSE IF heap_read(heap, rhs) = FZero THEN Err("modulo by zero")
              ELSE update_heap_value(heap, self,
                       FRem(heap_read(heap, self), heap_read(heap, rhs)), "Value")
    ELSE Err("cannot modulo")

BoolNum(b) == U64(IF b THEN 1 ELSE 0)

LogicalAsserts(self, rhs, debug) == debug /\ (tag(self) # "Bool" \/ tag(rhs) # "Bool")

logical_and_inplace(heap, self, rhs, debug) ==
    IF LogicalAsserts(self, rhs, debug) THEN Panic("assertion failed")
    ELSE Ok(update_stack_value(self, BoolNum(to_bool(self) /\ to_bool(rhs)), "Value"), heap)

logical_or_inplace(heap, self, rhs, debug) ==
    IF LogicalAsserts(self, rhs, debug) THEN Panic("assertion failed")
    ELSE Ok(update_stack_value(self, BoolNum(to_bool(self) \/ to_bool(rhs)), "Value"), heap)

logical_xor_inplace(heap, self, rhs, debug) ==
    IF LogicalAsserts(self, rhs, debug) THEN Panic("assertion failed")
    ELSE Ok(update_stack_value(self, BoolNum(to_bool(self) # to_bool(rhs)), "Value"), heap)

\* replace self by the Bool Word of a comparison's outcome
CmpResult(heap, self, outcome, truths) ==
    IF outcome = "panic" THEN Panic("not implemented")
    ELSE IF outcome = "ub" THEN UB
    ELSE Ok(replace_with_stack_value(self, BoolNum(outcome \in truths), "Value", "Bool"), heap)

equals_inplace(heap, self, rhs, debug) ==
    IF debug /\ tag(self) # tag(rhs) THEN Panic("assertion failed")
    ELSE CmpResult(heap, self, word_eq(heap, self, rhs), {"true"})

not_equals_inplace(heap, self, rhs, debug) ==
    IF debug /\ tag(self) # tag(rhs) THEN Panic("assertion failed")
    ELSE CmpResult(heap, self, word_eq(heap, self, rhs), {"false"})

\* impl_word_cmp!
impl_word_cmp(heap, self, rhs, debug, truths) ==
    IF debug /\ tag(self) # tag(rhs) THEN Panic("assertion failed")
    ELSE CmpResult(heap, self, partial_cmp(heap, self, rhs, debug), truths)

greater_than_inplace(heap, self, rhs, debug) ==
    impl_word_cmp(heap, self, rhs, debug, {"gt"})

\* a >= that is false on equal operands
greater_than_eq_strict(heap, self, rhs, debug) ==
    impl_word_cmp(heap, self, rhs, debug, {"gt"})

greater_than_eq_inplace(heap, self, rhs, debug) ==
    impl_word_cmp(heap, self, rhs, debug, {"gt", "eq"})

less_than_inplace(heap, self, rhs, debug) ==
    impl_word_cmp(heap, self, rhs, debug, {"lt"})

less_than_eq_inplace(heap, self, rhs, debug) ==
    impl_word_cmp(heap, self, rhs, debug, {"lt", "eq"})

\* a result the rationals of the model cannot represent (a root, 0 to a
\* negative power)
FUnknown == <<0, 0>>

RECURSIVE FPowNat(_, _)
FPowNat(x, n) == IF n = 0 THEN <<1, 1>> ELSE FMul(x, FPowNat(x, n - 1))

\* powf
FPow(x, y) ==
    IF x = FUnknown \/ y = FUnknown \/ y[2] # 1 THEN FUnknown
    ELSE IF y[1] >= 0 THEN FPowNat(x, y[1])
    ELSE IF x = FZero THEN FUnknown
    ELSE FDiv(<<1, 1>>, FPowNat(x, -y[1]))

\* an Int base becomes a fresh Float Word (become_word); a Float base is
\* overwritten in place
exponentiate_inplace(heap, self, rhs, debug) ==
    IF debug /\ tag(rhs) \notin ArithTags THEN Panic("assertion failed")
    ELSE IF tag(self) = "Int" /\ tag(rhs) = "Int"
         THEN LET a == Word_float(heap, FPow(<<to_int(self), 1>>, <<to_int(rhs), 1>>), "Value")
              IN Ok(a.w, a.heap)
    ELSE IF tag(self) = "Int" /\ tag(rhs) = "FloatPtr"
         THEN IF ~Points(heap, rhs, "float") THEN UB
              ELSE LET a == Word_float(heap, FPow(<<to_int(self), 1>>, heap_read(heap, rhs)),
                                       "Value")
                   IN Ok(a.w, a.heap)
    ELSE IF tag(self) = "FloatPtr" /\ tag(rhs) = "Int"
         THEN IF ~Points(heap, self, "float") THEN UB
              ELSE update_heap_value(heap, self,
                       FPow(heap_read(heap, self), <<to_int(rhs), 1>>), "Value")
    ELSE IF tag(self) = "FloatPtr" /\ tag(rhs) = "FloatPtr"
         THEN IF ~FloatOperands(heap, self, rhs) THEN UB
              ELSE update_heap_value(heap, self,
                       FPow(heap_read(heap, self), heap_read(heap, rhs)), "Value")
    ELSE Err("cannot exponentiate")

(***************************************************************************)
(* vm/mod.rs, vm/input.rs: the VM                                          *)
(***************************************************************************)
\* struct VM, with the outcome of run(): "run" while the loop dispatches,
\* "ok" / "err" once it returned, "panic" / "ub" when the thread died
VM_new(bytecode, heap_floats, heap_strings) ==
    [bytecode |-> bytecode, vars |-> <<>>, stack |-> <<>>, gc |-> <<>>, ip |-> 0,
     heap_floats |-> heap_floats, heap_strings |-> heap_strings,
     status |-> "run", msg |-> "", out |-> <<>>]

from_bytecode_only(bytecode) == VM_new(bytecode, <<>>, <<>>)

Halt(m, st, msg) == [m EXCEPT !.status = st, !.msg = msg]

Top(m) == m.stack[Len(m.stack)]

SetTop(m, w) == [m EXCEPT !.stack[Len(m.stack)] = w]

Pop(m) == [m EXCEPT !.stack = SubSeq(m.stack, 1, Len(m.stack) - 1)]

Push(m, w) == [m EXCEPT !.stack = Append(m.stack, w)]

\* gc.trace
Trace(m, w) == [m EXCEPT !.gc = Append(m.gc, w)]

\* pop_value cannot return: the stack is empty, or (debug build) the popped
\* Word is no Value
PopFails(m, debug) == m.stack = <<>> \/ (debug /\ opcode(Top(m)) # "Value")

PopPanic(m) ==
    Halt(m, "panic", IF m.stack = <<>> THEN "stack underflow" ELSE "assertion failed")

BinaryOps ==
    <<"Add", "Subtract", "Multiply", "Divide", "Modulo", "LogicalAnd", "LogicalOr",
      "LogicalXor", "Equals", "NotEquals", "GreaterThan", "LessThan", "GreaterThanEq",
      "LessThanEq">>

BinaryThisOps ==
    <<"AddThis", "SubtractThis", "MultiplyThis", "DivideThis", "ModuloThis",
      "LogicalAndThis", "LogicalOrThis", "LogicalXorThis", "EqualsThis", "NotEqualsThis",
      "GreaterThanThis", "LessThanThis", "GreaterThanEqThis", "LessThanEqThis">>

IsIn(names, x) == \E i \in 1..Len(names) : names[i] = x

\* the method a binary opcode (plain or This) dispatches to
Inplace(opc, heap, self, rhs, debug) ==
    LET names == IF IsIn(BinaryOps, opc) THEN BinaryOps ELSE BinaryThisOps
        k == CHOOSE i \in 1..Len(names) : names[i] = opc
    IN CASE k = 1 -> add_inplace(heap, self, rhs, debug)
         [] k = 2 -> subtract_inplace(heap, self, rhs, debug)
         [] k = 3 -> multiply_inplace(heap, self, rhs, debug)
         [] k = 4 -> divide_inplace(heap, self, rhs, debug)
         [] k = 5 -> modulo_inplace(heap, self, rhs, debug)
         [] k = 6 -> logical_and_inplace(heap, self, rhs, debug)
         [] k = 7 -> logical_or_inplace(heap, self, rhs, debug)
         [] k = 8 -> logical_xor_inplace(heap, self, rhs, debug)
         [] k = 9 -> equals_inplace(heap, self, rhs, debug)
         [] k = 10 -> not_equals_inplace(heap, self, rhs, debug)
         [] k = 11 -> greater_than_inplace(heap, self, rhs, debug)
         [] k = 12 -> less_than_inplace(heap, self, rhs, debug)
         [] k = 13 -> greater_than_eq_inplace(heap, self, rhs, debug)
         [] k = 14 -> less_than_eq_inplace(heap, self, rhs, debug)

\* the state after `stack.back_mut().unwrap().op(rhs)?`
Apply(m, heap, r) ==
    CASE r.res = "ok" ->
            [vm |-> IF Len(r.heap) > Len(heap) THEN Trace(SetTop(m, r.w), r.w)
                    ELSE SetTop(m, r.w),
             heap |-> r.heap]
      [] r.res = "err" -> [vm |-> Halt(m, "err", r.msg), heap |-> heap]
      [] OTHER -> [vm |-> Halt(m, r.res, r.msg), heap |-> heap]

\* OpThis: the operand is the current instruction
run_this(m, heap, opc, current, debug) ==
    IF m.stack = <<>> THEN [vm |-> Halt(m, "panic", "unwrap on None"), heap |-> heap]
    ELSE Apply(m, heap,
               IF opc \in {"Power", "PowerThis"}
               THEN exponentiate_inplace(heap, Top(m), current, debug)
               ELSE Inplace(opc, heap, Top(m), current, debug))

\* a run_binary! that takes the popped Word as the left operand
run_binary_swapped(m, heap, opc, debug) ==
    IF PopFails(m, debug) \/ Len(m.stack) < 2 THEN [vm |-> PopPanic(m), heap |-> heap]
    ELSE run_this(Push(Pop(Pop(m)), Top(m)), heap, opc, Top(Pop(m)), debug)

\* run_binary!: the popped Word is the right operand of the Word below it
run_binary(m, heap, opc, debug) ==
    IF debug /\ m.stack = <<>>
    THEN [vm |-> Halt(m, "panic", "assertion failed"), heap |-> heap]
    ELSE IF PopFails(m, debug) THEN [vm |-> PopPanic(m), heap |-> heap]
    ELSE LET lhs == Top(m) IN run_this(Pop(m), heap, opc, lhs, debug)

\* as_option / as_table: assert_eq! on the tag, then the dereference
AsHeap(heap, w, t, kind) ==
    IF tag(w) # t THEN "panic" ELSE IF ~Points(heap, w, kind) THEN "ub" ELSE "ok"

\* a WrapInOption that wraps every Word in Some
wrap_in_option_always_some(m, heap, x) ==
    LET a == Word_option(heap, <<x>>, "Value")
    IN [vm |-> Trace(Push(m, a.w), a.w), heap |-> a.heap]

\* the WrapInOption arms: Some(x), or None for a Word of the Special tag
wrap_in_option(m, heap, x) ==
    LET a == Word_option(heap, IF tag(x) = "Special" THEN <<>> ELSE <<x>>, "Value")
    IN [vm |-> Trace(Push(m, a.w), a.w), heap |-> a.heap]

\* the UnwrapOption arms
unwrap_option(m, heap, x) ==
    LET st == AsHeap(heap, x, "OptionPtr", "option") IN
    IF st # "ok" THEN [vm |-> Halt(m, st, "as_option"), heap |-> heap]
    ELSE IF heap_read(heap, x) = <<>>
         THEN [vm |-> Halt(m, "err", "unwrap option from non-option value"), heap |-> heap]
    ELSE [vm |-> Push(m, heap_read(heap, x)[1]), heap |-> heap]

\* BTreeMap::insert under the derived Ord of Word, which compares the raw
\* 64 bits: a key already stored keeps its entry and takes the new value
TableInsert(tbl, k, v) == [x \in (DOMAIN tbl) \cup {k} |-> IF x = k THEN v ELSE tbl[x]]

\* get(key).or_else(get(DEFAULTTABLEARM)): <<>> or <<value>>
TableGet(tbl, k) ==
    IF k \in DOMAIN tbl THEN <<tbl[k]>>
    ELSE IF DEFAULTTABLEARM \in DOMAIN tbl THEN <<tbl[DEFAULTTABLEARM]>>
    ELSE <<>>

\* an IndexGet whose option Word keeps the opcode of the instruction
index_get_keeps_opcode(m, heap, table, key) ==
    LET st == AsHeap(heap, table, "TablePtr", "table") IN
    IF st # "ok" THEN [vm |-> Halt(m, st, "as_table"), heap |-> heap]
    ELSE LET a == Word_option(heap, TableGet(heap_read(heap, table), key), "IndexGet")
         IN [vm |-> Trace(Push(m, a.w), a.w), heap |-> a.heap]

\* the IndexGet arms: the table Word and the key Word are already taken
index_get(m, heap, table, key) ==
    LET st == AsHeap(heap, table, "TablePtr", "table") IN
    IF st # "ok" THEN [vm |-> Halt(m, st, "as_table"), heap |-> heap]
    ELSE LET a == Word_option(heap, TableGet(heap_read(heap, table), key), "Value")
         IN [vm |-> Trace(Push(m, a.w), a.w), heap |-> a.heap]

\* ReadFromMap of a table: pop value then key, num_of_pairs times
RECURSIVE read_table(_, _, _, _, _)
read_table(m, heap, n, tbl, debug) ==
    IF n = 0
    THEN LET a == Word_table(heap, tbl, "Value")
         IN [vm |-> Trace(Push(m, a.w), a.w), heap |-> a.heap]
    ELSE IF PopFails(m, debug) THEN [vm |-> PopPanic(m), heap |-> heap]
    ELSE IF PopFails(Pop(m), debug) THEN [vm |-> PopPanic(Pop(m)), heap |-> heap]
    ELSE read_table(Pop(Pop(m)), heap, n - 1, TableInsert(tbl, Top(Pop(m)), Top(m)), debug)

read_from_map(m, heap, current, debug) ==
    LET map_idx == value(current) IN
    IF debug /\ ~is_tag_for_heap(current)
    THEN [vm |-> Halt(m, "panic", "assertion failed"), heap |-> heap]
    ELSE IF tag(current) = "FloatPtr"
         THEN IF map_idx[31] = 1 \/ ToNat(map_idx) >= Len(m.heap_floats)
              THEN [vm |-> Halt(m, "panic", "readfrommap pointing to invalid raw float"),
                    heap |-> heap]
              ELSE LET a == Word_float(heap, m.heap_floats[ToNat(map_idx) + 1], "Value")
                   IN [vm |-> Trace(Push(m, a.w), a.w), heap |-> a.heap]
    ELSE IF tag(current) = "StrPtr"
         THEN IF map_idx[31] = 1 \/ ToNat(map_idx) >= Len(m.heap_strings)
              THEN [vm |-> Halt(m, "panic", "readfrommap pointing to invalid raw string"),
                    heap |-> heap]
              ELSE IF m.heap_strings[ToNat(map_idx) + 1] = <<>>
                   THEN [vm |-> Halt(m, "panic", "string already taken"), heap |-> heap]
              ELSE LET a == Word_str(heap, m.heap_strings[ToNat(map_idx) + 1][1], "Value")
                       m1 == [m EXCEPT !.heap_strings[ToNat(map_idx) + 1] = <<>>]
                   IN [vm |-> Trace(Push(m1, a.w), a.w), heap |-> a.heap]
    ELSE IF tag(current) = "TablePtr"
         THEN IF map_idx[31] = 1
              THEN [vm |-> PopPanic([m EXCEPT !.stack = <<>>]), heap |-> heap]
              ELSE read_table(m, heap, ToNat(map_idx), <<>>, debug)
    ELSE [vm |-> Halt(m, "err", "reading from map a nonheap value"), heap |-> heap]

\* JumpIfFalse: pop; if false, ip += current.payload
jump_if_false(m, heap, current, debug) ==
    IF PopFails(m, debug) THEN [vm |-> PopPanic(m), heap |-> heap]
    ELSE IF debug /\ tag(Top(m)) # "Bool"
         THEN [vm |-> Halt(m, "panic", "assertion failed"), heap |-> heap]
    ELSE IF to_bool(Top(m)) THEN [vm |-> Pop(m), heap |-> heap]
    ELSE [vm |-> [Pop(m) EXCEPT !.ip = m.ip + ToNat(value(current))], heap |-> heap]

\* JumpIfNo: pop option; if none, ip += current.payload
jump_if_no(m, heap, current, debug) ==
    IF PopFails(m, debug) THEN [vm |-> PopPanic(m), heap |-> heap]
    ELSE LET st == AsHeap(heap, Top(m), "OptionPtr", "option") IN
         IF st # "ok" THEN [vm |-> Halt(Pop(m), st, "as_option"), heap |-> heap]
         ELSE IF heap_read(heap, Top(m)) # <<>> THEN [vm |-> Pop(m), heap |-> heap]
         ELSE [vm |-> [Pop(m) EXCEPT !.ip = m.ip + ToNat(value(current))], heap |-> heap]

\* one iteration of the loop of run(): [vm, heap] after the dispatch
run_step(vm0, heap, debug) ==
    IF vm0.ip >= Len(vm0.bytecode)
    THEN [vm |-> Halt(vm0, "panic", IF debug THEN "assertion failed" ELSE "index out of bounds"),
          heap |-> heap]
    ELSE
    LET here == vm0.ip + 1
        current == vm0.bytecode[here]
        m == [vm0 EXCEPT !.ip = vm0.ip + 1]
        opc == opcode(current)
        asValue == set_opcode(current, "Value")
        mset == [m EXCEPT !.bytecode[here] = asValue]
        Same(mm) == [vm |-> mm, heap |-> heap]
    IN CASE opc = "INVALID" -> Same(Halt(vm0, "panic", "invalid opcode"))
         [] opc = "Stop" -> Same(Halt(m, "ok", ""))
         [] opc = "Value" -> Same(Push(m, current))
         [] opc = "Print" ->
                IF m.stack = <<>> THEN Same(Halt(m, "panic", "unwrap on None"))
                ELSE Same([m EXCEPT !.out = Append(m.out, Top(m))])
         [] IsIn(BinaryOps, opc) \/ opc = "Power" -> run_binary(m, heap, opc, debug)
         [] IsIn(BinaryThisOps, opc) \/ opc = "PowerThis" ->
                run_this(m, heap, opc, current, debug)
         [] opc = "NegateThis" ->
                IF debug /\ tag(current) # "Bool"
                THEN Same(Halt(m, "panic", "assertion failed"))
                ELSE Same(Push(m, Word_bool(~to_bool(current), "Value")))
         [] opc = "SetLocalThis" ->
                Same(Push([mset EXCEPT !.vars = Append(m.vars, asValue)], asValue))
         [] opc = "SetLocal" ->
                IF m.stack = <<>> THEN Same(Halt(m, "panic", "unwrap on None"))
                ELSE Same([m EXCEPT !.vars = Append(m.vars, Top(m))])
         [] opc = "GetLocal" ->
                IF aux(current) >= Len(m.vars)
                THEN Same(Halt(m, "panic", "local index out of bounds"))
                ELSE Same(Push(m, m.vars[aux(current) + 1]))
         [] opc = "WrapInOption" ->
                IF PopFails(m, debug) THEN Same(PopPanic(m))
                ELSE wrap_in_option(Pop(m), heap, Top(m))
         [] opc = "WrapInOptionThis" -> wrap_in_option(mset, heap, asValue)
         [] opc = "UnwrapOption" ->
                IF PopFails(m, debug) THEN Same(PopPanic(m))
                ELSE unwrap_option(Pop(m), heap, Top(m))
         [] opc = "UnwrapOptionThis" -> unwrap_option(m, heap, current)
         [] opc = "IndexGet" ->
                IF m.stack = <<>> THEN Same(Halt(m, "panic", "unwrap on None"))
                ELSE IF PopFails(Pop(m), debug) THEN Same(PopPanic(Pop(m)))
                ELSE index_get(Pop(Pop(m)), heap, Top(m), Top(Pop(m)))
         [] opc = "IndexGetThis" ->
                IF m.stack = <<>> THEN Same(Halt(mset, "panic", "unwrap on None"))
                ELSE index_get(Pop(mset), heap, Top(m), asValue)
         [] opc = "ReadFromMap" -> read_from_map(m, heap, current, debug)
         [] opc = "JumpIfFalse" -> jump_if_false(m, heap, current, debug)
         [] opc = "JumpIfNo" -> jump_if_no(m, heap, current, debug)
         [] OTHER -> Same(Halt(m, "panic", "opcode not implemented"))

\* finalize: pop_value; [vm, result]
finalize(m, debug) ==
    IF PopFails(m, debug) THEN [vm |-> PopPanic(m), result |-> <<>>]
    ELSE [vm |-> Halt(Pop(m), "finalized", ""), result |-> <<Top(m)>>]

\* run() to its end, then finalize when run returned Ok: what a caller
\* such as expect_vm_execution observes
RECURSIVE run(_, _, _)
run(m, heap, debug) ==
    IF m.status = "run"
    THEN LET s == run_step(m, heap, debug) IN run(s.vm, s.heap, debug)
    ELSE [vm |-> m, heap |-> heap]

\* the value a Word stands for: its tag and payload, or the heap object
Datum(heap, w) ==
    IF tag(w) \in {"FloatPtr", "StrPtr", "TablePtr", "OptionPtr"}
          /\ value(w)[31] = 0 /\ ToNat(value(w)) \in 1..Len(heap)
    THEN <<tag(w), heap[ToNat(value(w))]>>
    ELSE <<tag(w), value(w)>>

(***************************************************************************)
(* The setters as operations on one Word                                   *)
(***************************************************************************)
MaxSampleAux == 1

SampleInts == {0, -1}

SampleWords ==
    {set_aux(Word_int(n, o), U64(a)) :
        n \in SampleInts, o \in {"Value", "GetLocal"}, a \in 0..MaxSampleAux}
    \cup {Word_bool(b, "Value") : b \in BOOLEAN}

SetterTags == {"Bool", "OptionPtr", "Special"}

SetterOpcodes == {"Stop", "LessThanEqThis", "IndexGetThis"}

AuxFieldBits == PTR_START - AUX_START

\* u32 arguments of set_aux: small ones, the largest the field holds, and
\* the first ones it does not hold
SetterAuxArgs ==
    {U64(a) : a \in {0, Pow2(AuxFieldBits) - 1, Pow2(AuxFieldBits)}}

SetterValueArgs == {U64(5), Low32(I32AsU64(-1)), Shl(U64(1), 32)}

\* the value of the variables a specification does not use
NoVM == [VM_new(<<>>, <<>>, <<>>) EXCEPT !.status = "none"]

\* no REPL is being served
NoRepl == [status |-> "none", source |-> <<>>, read |-> 0, line |-> <<>>, out |-> <<>>]

RunIdle ==
    /\ build = "release"
    /\ input = <<>>
    /\ emitter = <<>>
    /\ stream = <<>>
    /\ vm = NoVM
    /\ mem = <<>>
    /\ result = <<>>
    /\ repl = NoRepl

WordIdle ==
    /\ word = Zero64
    /\ prev = Zero64
    /\ op = <<"none", Zero64>>

WordInit ==
    /\ word \in SampleWords
    /\ prev = word
    /\ op = <<"new", Zero64>>
    /\ RunIdle

SetTag ==
    \E t \in SetterTags :
        /\ word' = set_tag(word, t)
        /\ prev' = word
        /\ op' = <<"set_tag", U64(EnumNum(ValueTag, t))>>
        /\ UNCHANGED runVars

SetOpcode ==
    \E o \in SetterOpcodes :
        /\ word' = set_opcode(word, o)
        /\ prev' = word
        /\ op' = <<"set_opcode", U64(EnumNum(OpCode, o))>>
        /\ UNCHANGED runVars

SetAux ==
    \E a \in SetterAuxArgs :
        /\ word' = set_aux(word, a)
        /\ prev' = word
        /\ op' = <<"set_aux", a>>
        /\ UNCHANGED runVars

SetValue ==
    \E v \in SetterValueArgs :
        /\ word' = set_value(word, v)
        /\ prev' = word
        /\ op' = <<"set_value", v>>
        /\ UNCHANGED runVars

WordNext == SetTag \/ SetOpcode \/ SetAux \/ SetValue

SpecWord == WordInit /\ [][WordNext]_allVars

(***************************************************************************)
(* The VM on hand-built bytecode, as the tests of vm/mod.rs run it:        *)
(* from_bytecode_only, run, finalize                                       *)
(***************************************************************************)
MaxOperand == 2

\* small Ints of both signs, and the two extremes of i32
IntOperands == (-MaxOperand .. MaxOperand) \cup {MinI32, MaxI32}

FloatOperandValues == {<<0, 1>>, <<-3, 2>>, <<5, 1>>}

Literals ==
    {<<"Int", n>> : n \in IntOperands} \cup {<<"Bool", b>> : b \in BOOLEAN}
    \cup {<<"Char", c>> : c \in {97, 98}} \cup {<<"Float", f>> : f \in FloatOperandValues}

NoLiteral == <<"No", 0>>

\* the Word of a literal, allocated the way the Word constructors do
Literal(h, lit, opc) ==
    CASE lit[1] = "Int" -> [w |-> Word_int(lit[2], opc), heap |-> h]
      [] lit[1] = "Bool" -> [w |-> Word_bool(lit[2], opc), heap |-> h]
      [] lit[1] = "Char" -> [w |-> Word_char(lit[2], opc), heap |-> h]
      [] lit[1] = "Float" -> Word_float(h, lit[2], opc)
      [] OTHER -> [w |-> set_opcode(NOOPTION, opc), heap |-> h]

\* the This opcode of a plain binary opcode
ThisOf(opc) == BinaryThisOps[CHOOSE i \in 1..Len(BinaryOps) : BinaryOps[i] = opc]

StopWord == Word_int(0, "Stop")

\* a test case: which bytecode to hand to from_bytecode_only
BinaryCases ==
    {[kind |-> "binary", form |-> f, op |-> BinaryOps[i], a |-> a, b |-> b] :
        f \in {"this", "plain"}, i \in 1..Len(BinaryOps),
        a \in Literals, b \in {x \in Literals : TRUE}}

OptionCases ==
    {[kind |-> "option", form |-> f, op |-> "WrapInOption", a |-> a, b |-> a] :
        f \in {"this", "plain", "unwrapthis"}, a \in Literals \cup {NoLiteral}}

\* [bytecode, heap] of a test case
TestProgram(c) ==
    IF c.kind = "binary"
    THEN LET a == Literal(<<>>, c.a, "Value")
             b == Literal(a.heap, c.b, IF c.form = "this" THEN ThisOf(c.op) ELSE "Value")
         IN [bytecode |-> IF c.form = "this" THEN <<a.w, b.w, StopWord>>
                          ELSE <<a.w, b.w, Word_int(0, c.op), StopWord>>,
             heap |-> b.heap]
    ELSE IF c.form = "unwrapthis"
    THEN LET a == Literal(<<>>, c.a, "Value")
             o == Word_option(a.heap, IF c.a = NoLiteral THEN <<>> ELSE <<a.w>>,
                              "UnwrapOptionThis")
         IN [bytecode |-> <<o.w, StopWord>>, heap |-> o.heap]
    ELSE LET a == Literal(<<>>, c.a, IF c.form = "this" THEN "WrapInOptionThis" ELSE "Value")
         IN [bytecode |-> IF c.form = "this"
                          THEN <<a.w, Word_int(0, "UnwrapOption"), StopWord>>
                          ELSE <<a.w, Word_int(0, "WrapInOption"),
                                 Word_int(0, "UnwrapOption"), StopWord>>,
             heap |-> a.heap]

SameTag(c) == c.a[1] = c.b[1]

TestCases == {c \in BinaryCases : SameTag(c)} \cup OptionCases

VMInit ==
    /\ build \in {"debug", "release"}
    /\ input \in TestCases
    /\ vm = from_bytecode_only(TestProgram(input).bytecode)
    /\ mem = TestProgram(input).heap
    /\ result = <<>>
    /\ emitter = <<>>
    /\ stream = <<>>
    /\ WordIdle
    /\ repl = NoRepl

\* one iteration of the dispatch loop of run()
RunStep ==
    /\ vm.status = "run"
    /\ LET s == run_step(vm, mem, build = "debug")
       IN vm' = s.vm /\ mem' = s.heap
    /\ UNCHANGED <<word, prev, op, build, input, emitter, stream, result, repl>>

\* finalize(), called once run has returned Ok
Finalize ==
    /\ vm.status = "ok"
    /\ LET f == finalize(vm, build = "debug")
       IN vm' = f.vm /\ result' = f.result
    /\ UNCHANGED <<word, prev, op, build, input, emitter, stream, mem, repl>>

VMNext == RunStep \/ Finalize

SpecVM == VMInit /\ [][VMNext]_allVars

(***************************************************************************)
(* emitter/mod.rs: the syntax tree and the tree walk.  A node is a record  *)
(* [kind, text, children]; text is the source text of a leaf as a sequence *)
(* of character codes.                                                     *)
(***************************************************************************)
Leaf(kind, text) == [kind |-> kind, text |-> text, children |-> <<>>]

Node(kind, children) == [kind |-> kind, text |-> <<>>, children |-> children]

IsDigit(c) == c \in 48..57

\* the digits of text from i on as a number up to MaxI32: <<n>>, or <<>>
RECURSIVE ParseDigits(_, _, _)
ParseDigits(text, i, acc) ==
    IF i > Len(text) THEN <<acc>>
    ELSE IF ~IsDigit(text[i]) THEN <<>>
    ELSE IF acc > (MaxI32 - (text[i] - 48)) \div 10 THEN <<>>
    ELSE ParseDigits(text, i + 1, acc * 10 + (text[i] - 48))

\* the digits of 2147483648
MinI32Digits == <<50, 49, 52, 55, 52, 56, 51, 54, 52, 56>>

\* str::parse::<i32> of the text of an Int token (-?\d+): <<n>>, or <<>>
\* when the number does not fit
ParseI32(text) ==
    IF text = <<>> THEN <<>>
    ELSE IF text[1] = 45
         THEN IF Len(text) = 1 THEN <<>>
              ELSE IF Tail(text) = MinI32Digits THEN <<MinI32>>
              ELSE LET v == ParseDigits(text, 2, 0) IN IF v = <<>> THEN <<>> ELSE <<-v[1]>>
    ELSE ParseDigits(text, 1, 0)

TrueText == <<116, 114, 117, 101>>

FalseText == <<102, 97, 108, 115, 101>>

\* str::parse::<bool>
ParseBool(text) ==
    IF text = TrueText THEN <<TRUE>> ELSE IF text = FalseText THEN <<FALSE>> ELSE <<>>

\* str::parse::<char>: text of exactly one character
ParseChar(text) == IF Len(text) = 1 THEN <<text[1]>> ELSE <<>>

RECURSIVE Pow10(_)
Pow10(k) == IF k = 0 THEN 1 ELSE 10 * Pow10(k - 1)

MaxFractionDigits == 3

\* str::parse::<f64> of the text of a Float token (-?\d+\.\d+) as a
\* rational; the model reads fractions of up to MaxFractionDigits digits,
\* and its programs use texts whose value is a binary fraction, which f64
\* holds exactly
ParseF64(text) ==
    LET dots == {i \in 1..Len(text) : text[i] = 46}
        neg == text # <<>> /\ text[1] = 45
        from == IF neg THEN 2 ELSE 1
    IN
    IF Cardinality(dots) # 1 THEN <<>>
    ELSE LET d == CHOOSE i \in dots : TRUE
             k == Len(text) - d
             whole == IF d <= from THEN <<>> ELSE ParseDigits(SubSeq(text, from, d - 1), 1, 0)
             frac == IF k = 0 THEN <<>> ELSE ParseDigits(SubSeq(text, d + 1, Len(text)), 1, 0)
         IN IF whole = <<>> \/ frac = <<>> \/ k > MaxFractionDigits THEN <<>>
            ELSE <<FNorm((IF neg THEN -1 ELSE 1) * (whole[1] * Pow10(k) + frac[1]), Pow10(k))>>

IsSpace(c) == c \in {32, 9, 10, 13}

\* text.split_whitespace().next(): the first run of non-blank characters
FirstToken(text) ==
    LET starts == {i \in 1..Len(text) : ~IsSpace(text[i])} IN
    IF starts = {} THEN <<>>
    ELSE LET a == CHOOSE i \in starts : \A j \in starts : i <= j
             ends == {i \in a..Len(text) : \A j \in a..i : ~IsSpace(text[j])}
             b == CHOOSE i \in ends : \A j \in ends : j <= i
         IN SubSeq(text, a, b)

\* Emitter::new after parsing: the fields of the Emitter, and how emit ended
Emitter_new(ast_root) ==
    [ast_root |-> ast_root, bytecode |-> <<>>, heap_floats |-> <<>>,
     heap_strings |-> <<>>, local_variables |-> <<>>, curr_scope |-> 0,
     status |-> "new", msg |-> ""]

EmitOk(e, w) == [e |-> e, w |-> w]

EmitFail(e, st, msg) == [e |-> [e EXCEPT !.status = st, !.msg = msg], w |-> Zero64]

PushWord(e, w) == [e EXCEPT !.bytecode = Append(e.bytecode, w)]

\* OpCode::[<$opcode This>]
ThisOpcode(opc) ==
    CASE IsIn(BinaryOps, opc) -> ThisOf(opc)
      [] opc = "IndexGet" -> "IndexGetThis"
      [] opc = "WrapInOption" -> "WrapInOptionThis"
      [] opc = "UnwrapOption" -> "UnwrapOptionThis"
      [] opc = "Print" -> "PrintThis"

\* a push_embeddable! that never embeds
push_embeddable_never(e, w, opc) == EmitOk(PushWord(e, w), Word_int(0, opc))

\* push_embeddable!: embed the operator in a Value Word, or push the Word
\* and return the plain operator
push_embeddable(e, w, opc) ==
    IF is_embeddable(w) THEN EmitOk(e, set_opcode(w, ThisOpcode(opc)))
    ELSE EmitOk(PushWord(e, w), Word_int(0, opc))

first_child(node) == node.children[1]

last_child(node) == node.children[Len(node.children)]

\* rposition of a name among the local variables, as an index from 0; -1 for None
RECURSIVE rposition(_, _, _)
rposition(locals, name, i) ==
    IF i = 0 THEN -1
    ELSE IF locals[i].name = name THEN i - 1
    ELSE rposition(locals, name, i - 1)

EmitterBinary ==
    <<"Add", "Subtract", "Multiply", "Divide", "Modulo", "LogicalAnd", "LogicalOr",
      "LogicalXor">>

RECURSIVE emit_node(_, _, _)
RECURSIVE emit_children(_, _, _, _)
RECURSIVE emit_pairs(_, _, _, _)

\* `for child in node.children() { push(emit_node(child)?) }`: the emitter after it
emit_children(e, children, i, debug) ==
    IF i > Len(children) THEN e
    ELSE LET r == emit_node(e, children[i], debug) IN
         IF r.e.status # "new" THEN r.e
         ELSE emit_children(PushWord(r.e, r.w), children, i + 1, debug)

\* the loop over the pairs of a Table node
emit_pairs(e, pairs, i, debug) ==
    IF i > Len(pairs) THEN e
    ELSE IF debug /\ (pairs[i].kind # "TablePair" \/ Len(pairs[i].children) # 2)
         THEN EmitFail(e, "panic", "assertion failed").e
    ELSE IF pairs[i].children = <<>> THEN EmitFail(e, "panic", "unwrap on None").e
    ELSE LET k == emit_node(e, first_child(pairs[i]), debug) IN
         IF k.e.status # "new" THEN k.e
         ELSE LET v == emit_node(PushWord(k.e, k.w), last_child(pairs[i]), debug) IN
              IF v.e.status # "new" THEN v.e
              ELSE emit_pairs(PushWord(v.e, v.w), pairs, i + 1, debug)

\* emit_binary!
emit_binary(e, node, opc, debug) ==
    IF node.children = <<>> THEN EmitFail(e, "panic", "unwrap on None")
    ELSE LET lhs == emit_node(e, first_child(node), debug) IN
         IF lhs.e.status # "new" THEN lhs
         ELSE LET rhs == emit_node(PushWord(lhs.e, lhs.w), last_child(node), debug) IN
              IF rhs.e.status # "new" THEN rhs
              ELSE push_embeddable(rhs.e, rhs.w, opc)

\* emit_unary!, and the arms that emit one child and apply push_embeddable!
emit_unary(e, node, opc, debug) ==
    IF node.children = <<>> THEN EmitFail(e, "panic", "unwrap on None")
    ELSE LET operand == emit_node(e, first_child(node), debug) IN
         IF operand.e.status # "new" THEN operand
         ELSE push_embeddable(operand.e, operand.w, opc)

\* the If arm
emit_if(e, node, debug) ==
    IF node.children = <<>> THEN EmitFail(e, "panic", "unwrap on None")
    ELSE LET condition == emit_node(e, first_child(node), debug) IN
    IF condition.e.status # "new" THEN condition
    ELSE LET e1 == PushWord(condition.e, condition.w)
             jump_idx == Len(e1.bytecode)
             e2 == PushWord(e1, Word_int(0, "JumpIfFalse"))
             len_before_branch == Len(e2.bytecode)
             branch == emit_node(e2, last_child(node), debug)
         IN IF branch.e.status # "new" THEN branch
            ELSE LET instructions_to_jump == Len(branch.e.bytecode) - len_before_branch + 2
                     e3 == [branch.e EXCEPT !.bytecode[jump_idx + 1] =
                                set_value(@, U64(instructions_to_jump))]
                 IN push_embeddable(e3, branch.w, "WrapInOption")

\* the Else arm
emit_else(e, node, debug) ==
    IF node.children = <<>> THEN EmitFail(e, "panic", "unwrap on None")
    ELSE LET option == emit_node(e, first_child(node), debug) IN
    IF option.e.status # "new" THEN option
    ELSE LET e1 == PushWord(option.e, option.w)
             jump_idx == Len(e1.bytecode)
             e2 == PushWord(e1, Word_int(0, "JumpIfNo"))
             len_before_branch == Len(e2.bytecode)
             branch == emit_node(e2, last_child(node), debug)
         IN IF branch.e.status # "new" THEN branch
            ELSE LET instructions_to_jump == Len(branch.e.bytecode) - len_before_branch + 1
                     e3 == [branch.e EXCEPT !.bytecode[jump_idx + 1] =
                                set_value(@, U64(instructions_to_jump))]
                 IN EmitOk(e3, branch.w)

\* the VarDecl arm
emit_var_decl(e, node, debug) ==
    LET var_name == FirstToken(node.text) IN
    IF var_name = <<>> THEN EmitFail(e, "panic", "unwrap on None")
    ELSE IF debug /\ \E i \in 1..Len(e.local_variables) :
                        /\ e.local_variables[i].name = var_name
                        /\ e.local_variables[i].scope = e.curr_scope
         THEN EmitFail(e, "panic", "assertion failed")
    ELSE IF node.children = <<>> THEN EmitFail(e, "panic", "unwrap on None")
    ELSE LET e1 == [e EXCEPT !.local_variables =
                        Append(@, [name |-> var_name, scope |-> e.curr_scope])]
             decl_word == emit_node(e1, last_child(node), debug)
         IN IF decl_word.e.status # "new" THEN decl_word
            ELSE IF is_embeddable(decl_word.w)
                 THEN EmitOk(decl_word.e, set_opcode(decl_word.w, "SetLocalThis"))
            ELSE EmitOk(PushWord(decl_word.e, decl_word.w), Word_int(0, "SetLocal"))

\* emit_node: [e |-> the emitter afterwards, w |-> the Word returned]
emit_node(e, node, debug) ==
    LET k == node.kind
    IN CASE k = "Int" ->
              LET v == ParseI32(node.text) IN
              IF v = <<>> THEN EmitFail(e, "err", "expected node to be of type")
              ELSE EmitOk(e, Word_int(v[1], "Value"))
         [] k = "Bool" ->
              LET v == ParseBool(node.text) IN
              IF v = <<>> THEN EmitFail(e, "err", "expected node to be of type")
              ELSE EmitOk(e, Word_bool(v[1], "Value"))
         [] k = "Char" ->
              LET v == ParseChar(node.text) IN
              IF v = <<>> THEN EmitFail(e, "err", "expected node to be of type")
              ELSE EmitOk(e, Word_char(v[1], "Value"))
         [] k = "Float" ->
              LET v == ParseF64(node.text) IN
              IF v = <<>> THEN EmitFail(e, "err", "expected node to be of type")
              ELSE EmitOk([e EXCEPT !.heap_floats = Append(@, v[1])],
                          WordNew(U64(Len(e.heap_floats)), "ReadFromMap", "FloatPtr"))
         [] k = "Str" ->
              EmitOk([e EXCEPT !.heap_strings = Append(@, node.text)],
                     WordNew(U64(0), "ReadFromMap", "StrPtr"))
         [] k = "Table" ->
              LET e1 == emit_pairs(e, node.children, 1, debug) IN
              IF e1.status # "new" THEN [e |-> e1, w |-> Zero64]
              ELSE EmitOk(e1, WordNew(U64(Len(node.children)), "ReadFromMap", "TablePtr"))
         [] k = "TableIndexing" ->
              IF debug /\ Len(node.children) # 2 THEN EmitFail(e, "panic", "assertion failed")
              ELSE emit_binary(e, node, "IndexGet", debug)
         [] k = "DefaultKey" -> EmitOk(e, DEFAULTTABLEARM)
         [] k = "Option" ->
              IF node.children = <<>> THEN push_embeddable(e, NOOPTION, "WrapInOption")
              ELSE emit_unary(e, node, "WrapInOption", debug)
         [] k = "UnwrapOption" -> emit_unary(e, node, "UnwrapOption", debug)
         [] IsIn(EmitterBinary, k) -> emit_binary(e, node, k, debug)
         [] k = "Print" -> emit_unary(e, node, "Print", debug)
         [] k = "Scope" ->
              LET e1 == emit_children([e EXCEPT !.curr_scope = @ + 1], node.children, 1, debug)
              IN IF e1.status # "new" THEN [e |-> e1, w |-> Zero64]
                 ELSE EmitOk([e1 EXCEPT !.curr_scope = @ - 1], Word_int(0, "Print"))
         [] k = "Grouping" ->
              IF node.children = <<>> THEN EmitFail(e, "panic", "unwrap on None")
              ELSE emit_node(e, first_child(node), debug)
         [] k = "Identifier" ->
              LET index == rposition(e.local_variables, node.text, Len(e.local_variables)) IN
              IF index < 0
              THEN EmitFail(e, "panic", "did not find varname in already defined vars")
              ELSE EmitOk(e, set_aux(Word_int(0, "GetLocal"), U64(index)))
         [] k = "VarDecl" -> emit_var_decl(e, node, debug)
         [] k = "If" -> emit_if(e, node, debug)
         [] k = "Else" -> emit_else(e, node, debug)
         [] OTHER -> EmitFail(e, "panic", "not implemented")

\* emit: every child of the root, then Stop
emit(e, debug) ==
    LET e1 == emit_children(e, e.ast_root.children, 1, debug) IN
    IF e1.status # "new" THEN e1
    ELSE [PushWord(e1, Word_int(0, "Stop")) EXCEPT !.status = "emitted"]

(***************************************************************************)
(* The compiled stream: Emitter::write_to_stream and                       *)
(* VM::from_compiled_stream.  A stream is a sequence of bytes (0..255).    *)
(***************************************************************************)
\* u32::to_le_bytes of a number below 2^31
U32LE(n) == <<n % 256, (n \div 256) % 256, (n \div 65536) % 256, n \div 16777216>>

\* a to_le_bytes that writes the most significant byte first
U64BE(a) ==
    [k \in 1..8 |-> a[8 * (8 - k)] + 2 * a[8 * (8 - k) + 1] + 4 * a[8 * (8 - k) + 2]
                    + 8 * a[8 * (8 - k) + 3] + 16 * a[8 * (8 - k) + 4]
                    + 32 * a[8 * (8 - k) + 5] + 64 * a[8 * (8 - k) + 6]
                    + 128 * a[8 * (8 - k) + 7]]

\* u64::to_le_bytes
U64LE(a) ==
    [k \in 1..8 |-> a[8 * (k - 1)] + 2 * a[8 * (k - 1) + 1] + 4 * a[8 * (k - 1) + 2]
                    + 8 * a[8 * (k - 1) + 3] + 16 * a[8 * (k - 1) + 4]
                    + 32 * a[8 * (k - 1) + 5] + 64 * a[8 * (k - 1) + 6]
                    + 128 * a[8 * (k - 1) + 7]]

\* u64::from_le_bytes
U64FromLE(b) == [i \in BitIdx |-> (b[(i \div 8) + 1] \div Pow2(i % 8)) % 2]

\* u32::from_le_bytes; a length of 2^31 or more is more than any stream of
\* the model holds and is read as MaxI32
U32FromLE(b) ==
    IF b[4] >= 128 THEN MaxI32
    ELSE b[1] + 256 * b[2] + 65536 * b[3] + 16777216 * b[4]

\* the index of the highest set bit of a positive number
RECURSIVE HighBit(_)
HighBit(n) == IF n < 2 THEN 0 ELSE 1 + HighBit(n \div 2)

\* log2 of a power of two
Log2(d) == HighBit(d)

IsPow2(d) == d > 0 /\ Pow2(HighBit(d)) = d

F64Bias == 1023

F64MantissaBits == 52

\* the IEEE 754 binary64 pattern of the rational f = n / 2^k (the floats of
\* the model): sign in bit 63, biased exponent in bits 52..62, fraction below
F64ToBits(f) ==
    IF f[1] = 0 THEN Zero64
    ELSE LET m == Abs(f[1])
             p == HighBit(m)
             ex == (p - Log2(f[2])) + F64Bias
         IN [i \in BitIdx |->
                IF i = 63 THEN (IF f[1] < 0 THEN 1 ELSE 0)
                ELSE IF i >= F64MantissaBits THEN (ex \div Pow2(i - F64MantissaBits)) % 2
                ELSE IF i >= F64MantissaBits - p
                     THEN (m \div Pow2(i - (F64MantissaBits - p))) % 2
                ELSE 0]

\* the lowest set bit of the fraction, F64MantissaBits when there is none
RECURSIVE LowFractionBit(_, _)
LowFractionBit(a, i) ==
    IF i >= F64MantissaBits THEN F64MantissaBits
    ELSE IF a[i] = 1 THEN i ELSE LowFractionBit(a, i + 1)

RECURSIVE BitsValue(_, _, _)
BitsValue(a, lo, hi) == IF hi < lo THEN 0 ELSE a[lo] + 2 * BitsValue(a, lo + 1, hi)

\* the rational a binary64 pattern stands for; <<"bits", a>> for the
\* patterns the rationals of the model do not reach
F64FromBits(a) ==
    LET t == LowFractionBit(a, 0)
        ex == BitsValue(a, F64MantissaBits, 62)
        width == F64MantissaBits - t
        scale == (ex - F64Bias) - width
    IN IF a = Zero64 THEN FZero
       ELSE IF width > 29 \/ scale > 29 - width \/ scale < -30 THEN <<"bits", a>>
       ELSE LET m == Pow2(width) + BitsValue(a, t, F64MantissaBits - 1)
                sg == IF a[63] = 1 THEN -1 ELSE 1
            IN IF scale >= 0 THEN <<sg * m * Pow2(scale), 1>>
               ELSE FNorm(sg * m, Pow2(-scale))

\* str::as_bytes: UTF-8 of the code points below 2048
RECURSIVE Utf8(_)
Utf8(str) ==
    IF str = <<>> THEN <<>>
    ELSE (IF str[1] < 128 THEN <<str[1]>>
          ELSE <<192 + (str[1] \div 64), 128 + (str[1] % 64)>>) \o Utf8(Tail(str))

\* String::from_utf8 of one- and two-byte sequences: <<str>>, or <<>> when
\* the bytes are not UTF-8
RECURSIVE FromUtf8(_, _)
FromUtf8(b, acc) ==
    IF b = <<>> THEN <<acc>>
    ELSE IF b[1] < 128 THEN FromUtf8(Tail(b), Append(acc, b[1]))
    ELSE IF b[1] >= 194 /\ b[1] < 224 /\ Len(b) >= 2 /\ b[2] >= 128 /\ b[2] < 192
         THEN FromUtf8(Tail(Tail(b)), Append(acc, (b[1] - 192) * 64 + (b[2] - 128)))
    ELSE <<>>

RECURSIVE Concat(_)
Concat(seqs) == IF seqs = <<>> THEN <<>> ELSE seqs[1] \o Concat(Tail(seqs))

\* write_to_stream: the four sections
write_to_stream(e) ==
    <<1>> \o U32LE(Len(e.bytecode))
          \o Concat([k \in 1..Len(e.bytecode) |-> U64LE(e.bytecode[k])])
    \o <<2>> \o U32LE(Len(e.heap_floats))
          \o Concat([k \in 1..Len(e.heap_floats) |-> U64LE(F64ToBits(e.heap_floats[k]))])
    \o <<3>> \o U32LE(Len(e.heap_strings))
          \o Concat([k \in 1..Len(e.heap_strings) |->
                        U32LE(Len(Utf8(e.heap_strings[k]))) \o Utf8(e.heap_strings[k])])
    \o <<4>> \o U32LE(Len(e.local_variables))

\* how a read of the stream can end: io::Error (read_exact past the end),
\* or a panic (assert_eq! on a section id, expect on from_utf8)
LoadFail(st, msg) == [NoVM EXCEPT !.status = st, !.msg = msg]

\* the bytes at pos .. pos + n - 1, <<>> standing for read_exact's UnexpectedEof
Has(bytes, pos, n) == pos + n - 1 <= Len(bytes)

\* the loop reading the strings: [ok, pos, strings] / a failed VM
RECURSIVE read_strings(_, _, _, _)
read_strings(bytes, pos, n, acc) ==
    IF n = 0 THEN [st |-> "ok", pos |-> pos, strings |-> acc]
    ELSE IF ~Has(bytes, pos, 4) THEN [st |-> "err", pos |-> pos, strings |-> acc]
    ELSE LET str_len == U32FromLE(SubSeq(bytes, pos, pos + 3)) IN
         IF str_len > Len(bytes) \/ ~Has(bytes, pos + 4, str_len)
         THEN [st |-> "err", pos |-> pos, strings |-> acc]
         ELSE LET string == FromUtf8(SubSeq(bytes, pos + 4, pos + 3 + str_len), <<>>) IN
              IF string = <<>> THEN [st |-> "panic", pos |-> pos, strings |-> acc]
              ELSE read_strings(bytes, pos + 4 + str_len, n - 1, Append(acc, <<string[1]>>))

\* from_compiled_stream: the VM, or NoVM with the way the read failed
from_compiled_stream(bytes) ==
    LET Eof == LoadFail("err", "failed to fill whole buffer")
        Invalid == LoadFail("panic", "Invalid compiled stream")
    IN
    IF ~Has(bytes, 1, 1) THEN Eof
    ELSE IF bytes[1] # 1 THEN Invalid
    ELSE IF ~Has(bytes, 2, 4) THEN Eof
    ELSE LET bytecode_len == U32FromLE(SubSeq(bytes, 2, 5)) IN
    IF bytecode_len > Len(bytes) \/ ~Has(bytes, 6, 8 * bytecode_len) THEN Eof
    ELSE LET bytecode == [k \in 1..bytecode_len |->
                             from_u64(U64FromLE(SubSeq(bytes, 6 + 8 * (k - 1), 5 + 8 * k)))]
             p2 == 6 + 8 * bytecode_len
         IN
    IF ~Has(bytes, p2, 1) THEN Eof
    ELSE IF bytes[p2] # 2 THEN Invalid
    ELSE IF ~Has(bytes, p2 + 1, 4) THEN Eof
    ELSE LET floats_len == U32FromLE(SubSeq(bytes, p2 + 1, p2 + 4)) IN
    IF floats_len > Len(bytes) \/ ~Has(bytes, p2 + 5, 8 * floats_len) THEN Eof
    ELSE LET heap_floats ==
                 [k \in 1..floats_len |->
                     F64FromBits(U64FromLE(SubSeq(bytes, p2 + 5 + 8 * (k - 1),
                                                  p2 + 4 + 8 * k)))]
             p3 == p2 + 5 + 8 * floats_len
         IN
    IF ~Has(bytes, p3, 1) THEN Eof
    ELSE IF bytes[p3] # 3 THEN Invalid
    ELSE IF ~Has(bytes, p3 + 1, 4) THEN Eof
    ELSE LET num_strings == U32FromLE(SubSeq(bytes, p3 + 1, p3 + 4))
             strs == read_strings(bytes, p3 + 5, num_strings, <<>>)
         IN
    IF strs.st = "err" THEN Eof
    ELSE IF strs.st = "panic" THEN LoadFail("panic", "Invalid UTF-8 data")
    ELSE IF ~Has(bytes, strs.pos, 1) THEN Eof
    ELSE IF bytes[strs.pos] # 4 THEN Invalid
    ELSE IF ~Has(bytes, strs.pos + 1, 4) THEN Eof
    ELSE VM_new(bytecode, heap_floats, strs.strings)

(***************************************************************************)
(* The pipeline of tests/mod.rs (expect_vm_output): Emitter::new, emit,    *)
(* write_to_stream, from_compiled_stream, run, finalize.  The input is the *)
(* syntax tree the emitter walks (its ast_root).                           *)
(***************************************************************************)
MaxLiteral == 4

\* the text of a number 0..99
Digits(n) == IF n < 10 THEN <<48 + n>> ELSE <<48 + (n \div 10), 48 + (n % 10)>>

IntLit(n) == Leaf("Int", Digits(n))

BoolLit(b) == Leaf("Bool", IF b THEN TrueText ELSE FalseText)

Bin(kind, x, y) == Node(kind, <<x, y>>)

ScopeOf(x) == Node("Scope", <<x>>)

SomeOf(x) == Node("Option", <<x>>)

NoOption == Node("Option", <<>>)

IfNode(c, b) == Node("If", <<c, b>>)

ElseNode(x, b) == Node("Else", <<x, b>>)

Root(statements) == Node("Root", statements)

IntLits == {IntLit(n) : n \in 2..MaxLiteral}

\* operands that emit an instruction: products n * MaxLiteral
Products == {Bin("Multiply", IntLit(n), IntLit(MaxLiteral)) : n \in 2..(MaxLiteral - 1)}

Operands == IntLits \cup Products

BinaryPrograms ==
    {Root(<<Bin(EmitterBinary[i], x, y)>>) :
        i \in 1..Len(EmitterBinary), x \in Operands, y \in Operands}

\* a branch: a scope, a bare literal, a bare expression that ends in an instruction
Branches(n) == {ScopeOf(IntLit(n)), IntLit(n), Bin("Add", IntLit(n), IntLit(n + 1))}

Conditions == {BoolLit(TRUE), BoolLit(FALSE)}

IfPrograms ==
    {Root(<<IfNode(c, b)>>) : c \in Conditions, b \in Branches(2)}
    \cup {Root(<<IfNode(c, b), IntLit(3)>>) : c \in Conditions, b \in Branches(2)}

OptionOperands ==
    {NoOption, SomeOf(IntLit(2))} \cup {IfNode(c, ScopeOf(IntLit(2))) : c \in Conditions}

ElsePrograms ==
    {Root(<<ElseNode(x, b)>>) : x \in OptionOperands, b \in Branches(3)}
    \cup {Root(<<ElseNode(x, b), IntLit(4)>>) : x \in OptionOperands, b \in Branches(3)}

\* "1.5", "0.25", "-2.0", and the string texts "hi" and "hé" with their quotes
FloatTexts == <<(<<49, 46, 53>>), (<<48, 46, 50, 53>>), (<<45, 50, 46, 48>>)>>

StrTexts == <<(<<34, 104, 105, 34>>), (<<34, 104, 233, 34>>)>>

\* the text of the VarDecl node of `var x = 3` (the name token, the blanks
\* and the initializer), and the text "x"
VarDeclText == <<120, 32, 32, 51>>

NameX == <<120>>

PoolPrograms ==
    {Root(<<Bin("Add", Leaf("Float", FloatTexts[i]), Leaf("Float", FloatTexts[j]))>>) :
        i \in 1..Len(FloatTexts), j \in 1..Len(FloatTexts)}
    \cup {Root(<<Leaf("Str", StrTexts[i]), Leaf("Float", FloatTexts[j]),
                 Leaf("Str", StrTexts[3 - i])>>) :
            i \in 1..Len(StrTexts), j \in 1..Len(FloatTexts)}
    \cup {Root(<<[kind |-> "VarDecl", text |-> VarDeclText, children |-> <<IntLit(3)>>], Leaf("Identifier", NameX)>>)}
    \cup {Root(<<Bin("Add", Leaf("Str", StrTexts[1]), Leaf("Str", StrTexts[2]))>>),
          Root(<<Bin("Multiply", IntLit(2), Leaf("Float", FloatTexts[1]))>>)}

Pair(k, v) == Node("TablePair", <<k, v>>)

\* the tables [2: 4, 3: 2] and [2: 4, _: 3]
Tables ==
    {Node("Table", <<Pair(IntLit(2), IntLit(4)), Pair(IntLit(3), IntLit(2))>>),
     Node("Table", <<Pair(IntLit(2), IntLit(4)), Pair(Leaf("DefaultKey", <<95>>), IntLit(3))>>)}

\* a key as a literal, which is embedded, and as a sum, which is pushed
IndexKeys == UNION {{IntLit(k), Bin("Add", IntLit(0), IntLit(k))} : k \in {2, MaxLiteral}}

TablePrograms == {Root(<<Node("TableIndexing", <<t, k>>)>>) : t \in Tables, k \in IndexKeys}

NameY == <<121>>

\* the VarDecl node of `var <name> = <n>`
VarDecl(name, n) ==
    [kind |-> "VarDecl", text |-> name \o <<32, 32>> \o Digits(n), children |-> <<IntLit(n)>>]

\* uses of a name: undeclared, declared, declared twice at different depths
IdentPrograms ==
    {Root(<<Leaf("Identifier", NameX)>>),
     Root(<<VarDecl(NameX, 3), Leaf("Identifier", NameY)>>),
     Root(<<VarDecl(NameX, 3), VarDecl(NameY, 4), Leaf("Identifier", NameX)>>),
     Root(<<VarDecl(NameX, 3), VarDecl(NameY, 4), Leaf("Identifier", NameY)>>),
     Root(<<VarDecl(NameX, 3), Node("Scope", <<VarDecl(NameX, 4), Leaf("Identifier", NameX)>>)>>),
     Root(<<VarDecl(NameX, 3), ScopeOf(VarDecl(NameX, 4)), Leaf("Identifier", NameX)>>)}

\* declarations: of one name twice at one depth, at two depths, in two
\* scopes of one depth, and of two names
DeclPrograms ==
    {Root(<<VarDecl(NameX, 3), VarDecl(NameX, 4)>>),
     Root(<<VarDecl(NameX, 3), ScopeOf(VarDecl(NameX, 4))>>),
     Root(<<ScopeOf(VarDecl(NameX, 3)), ScopeOf(VarDecl(NameX, 4))>>),
     Root(<<VarDecl(NameX, 3), VarDecl(NameY, 4)>>)}

\* the VarDecl node of `var <name> = <init>`
VarDeclOf(name, init) ==
    [kind |-> "VarDecl", text |-> name \o <<32, 32>> \o init.text, children |-> <<init>>]

ArithmeticKinds == {"Add", "Subtract", "Multiply", "Divide", "Modulo"}

\* arithmetic on a local: `var x = <float>; x + <float>;` and `var x = 3; x + 2 * 4;`
LocalArithmeticPrograms ==
    {Root(<<VarDeclOf(NameX, Leaf("Float", FloatTexts[1])),
            Bin(k, Leaf("Identifier", NameX), Leaf("Float", FloatTexts[2]))>>) :
        k \in ArithmeticKinds}
    \cup {Root(<<VarDecl(NameX, 3),
                 Bin(k, Leaf("Identifier", NameX), Bin("Multiply", IntLit(2), IntLit(4)))>>) :
           k \in ArithmeticKinds}

\* a declaration in a branch that is taken or skipped, in a scope that was
\* left, and a name used in its own initializer
LocalIndexPrograms ==
    {Root(<<IfNode(c, ScopeOf(VarDecl(NameY, 4))), VarDecl(NameX, 3),
            Leaf("Identifier", NameX)>>) : c \in Conditions}
    \cup {Root(<<ElseNode(x, ScopeOf(VarDecl(NameY, 4))), VarDecl(NameX, 3),
                 Leaf("Identifier", NameX)>>) : x \in {NoOption, SomeOf(IntLit(2))}}
    \cup {Root(<<ScopeOf(VarDecl(NameY, 4)), VarDecl(NameX, 3), Leaf("Identifier", NameX)>>),
          Root(<<VarDeclOf(NameX, Leaf("Identifier", NameX))>>)}

Programs ==
    BinaryPrograms \cup IfPrograms \cup ElsePrograms \cup PoolPrograms \cup TablePrograms
        \cup IdentPrograms \cup DeclPrograms \cup LocalArithmeticPrograms
        \cup LocalIndexPrograms

Init ==
    /\ build \in {"debug", "release"}
    /\ input \in Programs
    /\ emitter = Emitter_new(input)
    /\ stream = <<>>
    /\ vm = NoVM
    /\ mem = <<>>
    /\ result = <<>>
    /\ WordIdle
    /\ repl = NoRepl

\* Emitter::emit
Emit ==
    /\ emitter.status = "new"
    /\ emitter' = emit(emitter, build = "debug")
    /\ UNCHANGED <<word, prev, op, build, input, stream, vm, mem, result, repl>>

\* Emitter::write_to_stream into an empty buffer
WriteToStream ==
    /\ emitter.status = "emitted"
    /\ stream = <<>>
    /\ stream' = write_to_stream(emitter)
    /\ UNCHANGED <<word, prev, op, build, input, emitter, vm, mem, result, repl>>

\* VM::from_compiled_stream on the buffer
FromCompiledStream ==
    /\ stream # <<>>
    /\ vm.status = "none"
    /\ vm' = from_compiled_stream(stream)
    /\ UNCHANGED <<word, prev, op, build, input, emitter, stream, mem, result, repl>>

Next == Emit \/ WriteToStream \/ FromCompiledStream \/ RunStep \/ Finalize

Spec == Init /\ [][Next]_allVars

(***************************************************************************)
(* The VM on hand-built bytecode with constant pools, short stacks and     *)
(* operands of different tags                                              *)
(***************************************************************************)
MaxPoolIndex == 1

MaxPairs == 2

MaxDepth == 3

PoolFloats == <<(<<3, 2>>), (<<1, 4>>)>>

PoolStrings == <<(<<StrTexts[1]>>), (<<StrTexts[2]>>)>>

\* the opcodes that pop, by the number of Words they take from the stack
PlainPopping == {BinaryOps[i] : i \in 1..Len(BinaryOps)} \cup {"Power", "IndexGet"}

ThisPopping == {BinaryThisOps[i] : i \in 1..Len(BinaryThisOps)} \cup {"PowerThis", "IndexGetThis"}

UnaryPopping == {"WrapInOption", "UnwrapOption"}

MixedLiterals == {<<"Int", 2>>, <<"Bool", TRUE>>, <<"Char", 97>>, <<"Float", <<5, 1>>>>}

PoolCases ==
    {[kind |-> "pool", op |-> t, a |-> i, b |-> j] :
        t \in {"FloatPtr", "StrPtr"}, i \in 0..MaxPoolIndex, j \in 0..MaxPoolIndex}

UnderflowCases ==
    {[kind |-> "underflow", op |-> o, a |-> d, b |-> 0] : o \in PlainPopping, d \in 0..1}
    \cup {[kind |-> "underflow", op |-> o, a |-> 0, b |-> 0] : o \in ThisPopping \cup UnaryPopping}
    \cup UNION {{[kind |-> "underflow", op |-> "ReadFromMap", a |-> d, b |-> n] :
                    d \in 0..(2 * n - 1)} : n \in 1..MaxPairs}

MixedPairs == {p \in MixedLiterals \X MixedLiterals : p[1][1] # p[2][1]}

MixedCases ==
    {[kind |-> "mixed", form |-> f, op |-> BinaryOps[i], a |-> p[1], b |-> p[2]] :
        f \in {"this", "plain"}, i \in 1..Len(BinaryOps), p \in MixedPairs}

ValueCases == {[kind |-> "values", op |-> "Stop", a |-> n, b |-> 0] : n \in 0..MaxDepth}

\* `if false {2}; 3;`, run from its emitted bytecode
IfThenThree == Root(<<IfNode(BoolLit(FALSE), ScopeOf(IntLit(2))), IntLit(3)>>)

ProgramCases == {[kind |-> "program", op |-> "Stop", a |-> 0, b |-> 0]}

\* the objects allocated before a table-key case runs: "hi", "hi", "hé"
KeyHeap ==
    <<HeapObj("str", StrTexts[1]), HeapObj("str", StrTexts[1]), HeapObj("str", StrTexts[2])>>

\* key Words: the three strings, Int 2, and Int 2 with a set aux bit
KeyWords ==
    <<WordNew(U64(1), "Value", "StrPtr"), WordNew(U64(2), "Value", "StrPtr"),
      WordNew(U64(3), "Value", "StrPtr"), Word_int(2, "Value"),
      set_aux(Word_int(2, "Value"), U64(1))>>

\* a one-entry table stored under key a and indexed with key b, the key
\* embedded in the IndexGetThis Word
TableKeyCases ==
    {[kind |-> "tablekey", op |-> "IndexGetThis", a |-> i, b |-> j] :
        i \in 1..Len(KeyWords), j \in 1..Len(KeyWords)}

Cases ==
    PoolCases \cup UnderflowCases \cup MixedCases \cup ValueCases \cup ProgramCases
        \cup TableKeyCases

\* n Value Words: Int 1 .. Int n
Values(n) == [k \in 1..n |-> Word_int(k, "Value")]

\* [bytecode, heap, heap_floats, heap_strings] of a case
CaseProgram(c) ==
    CASE c.kind = "pool" ->
            [bytecode |-> <<WordNew(U64(c.a), "ReadFromMap", c.op),
                            WordNew(U64(c.b), "ReadFromMap", c.op), StopWord>>,
             heap |-> <<>>, heap_floats |-> PoolFloats, heap_strings |-> PoolStrings]
      [] c.kind = "underflow" ->
            [bytecode |-> Values(c.a)
                          \o <<IF c.op = "ReadFromMap"
                               THEN WordNew(U64(c.b), "ReadFromMap", "TablePtr")
                               ELSE Word_int(1, c.op)>>
                          \o <<StopWord>>,
             heap |-> <<>>, heap_floats |-> <<>>, heap_strings |-> <<>>]
      [] c.kind = "mixed" ->
            [bytecode |-> TestProgram([c EXCEPT !.kind = "binary"]).bytecode,
             heap |-> TestProgram([c EXCEPT !.kind = "binary"]).heap,
             heap_floats |-> <<>>, heap_strings |-> <<>>]
      [] c.kind = "tablekey" ->
            [bytecode |-> <<KeyWords[c.a], Word_int(4, "Value"),
                            WordNew(U64(1), "ReadFromMap", "TablePtr"),
                            set_opcode(KeyWords[c.b], c.op), StopWord>>,
             heap |-> KeyHeap, heap_floats |-> <<>>, heap_strings |-> <<>>]
      [] c.kind = "program" ->
            [bytecode |-> emit(Emitter_new(IfThenThree), FALSE).bytecode,
             heap |-> <<>>, heap_floats |-> <<>>, heap_strings |-> <<>>]
      [] OTHER ->
            [bytecode |-> Values(c.a) \o <<StopWord>>,
             heap |-> <<>>, heap_floats |-> <<>>, heap_strings |-> <<>>]

CasesInit ==
    /\ build \in {"debug", "release"}
    /\ input \in Cases
    /\ vm = VM_new(CaseProgram(input).bytecode, CaseProgram(input).heap_floats,
                   CaseProgram(input).heap_strings)
    /\ mem = CaseProgram(input).heap
    /\ result = <<>>
    /\ emitter = <<>>
    /\ stream = <<>>
    /\ WordIdle
    /\ repl = NoRepl

SpecCases == CasesInit /\ [][VMNext]_allVars

(***************************************************************************)
(* The loader on streams whose section markers were changed: a stream      *)
(* written by write_to_stream with one marker byte replaced                *)
(***************************************************************************)
\* the programs whose streams are loaded: `2;`, `1.5;`, `"hi"; 0.25;`
StreamPrograms ==
    {Root(<<IntLit(2)>>),
     Root(<<Leaf("Float", FloatTexts[1])>>),
     Root(<<Leaf("Str", StrTexts[1]), Leaf("Float", FloatTexts[2])>>)}

\* bytes a marker is replaced with: the other markers and unknown ones
MarkerBytes == {0, 1, 2, 3, 4, 5, 255}

\* the positions (from 1) of the four section markers of the stream of e
MarkerPositions(e) ==
    LET p2 == 6 + 8 * Len(e.bytecode)
        p3 == p2 + 5 + 8 * Len(e.heap_floats)
        p4 == p3 + 5 + Len(Concat([k \in 1..Len(e.heap_strings) |->
                                      U32LE(Len(Utf8(e.heap_strings[k])))
                                          \o Utf8(e.heap_strings[k])]))
    IN <<1, p2, p3, p4>>

\* the markers of a stream are the ones write_to_stream wrote
MarkersIntact == \A k \in 1..4 : stream[MarkerPositions(emitter)[k]] = k

LoadInit ==
    /\ build \in {"debug", "release"}
    /\ input \in StreamPrograms
    /\ emitter = Emitter_new(input)
    /\ stream = <<>>
    /\ vm = NoVM
    /\ mem = <<>>
    /\ result = <<>>
    /\ WordIdle
    /\ repl = NoRepl

\* one marker byte of the written stream is replaced before it is loaded
ChangeMarker ==
    /\ stream # <<>>
    /\ vm.status = "none"
    /\ MarkersIntact
    /\ \E k \in 1..4, b \in MarkerBytes :
          /\ b # k
          /\ stream' = [stream EXCEPT ![MarkerPositions(emitter)[k]] = b]
    /\ UNCHANGED <<word, prev, op, build, input, emitter, vm, mem, result, repl>>

LoadNext == Emit \/ WriteToStream \/ ChangeMarker \/ FromCompiledStream \/ RunStep \/ Finalize

SpecLoad == LoadInit /\ [][LoadNext]_allVars

(***************************************************************************)
(* The REPL: serve_repl on lines typed by the user                         *)
(***************************************************************************)
MaxLines == 3

\* a line of input: a command, or source text that parses into statements or
\* does not parse
Line(cmd, parses, nodes) == [cmd |-> cmd, parses |-> parses, nodes |-> nodes]

ExitLine == Line("exit", TRUE, <<>>)

HelpLine == Line("help", TRUE, <<>>)

\* readline returned Err
Unreadable == Line("unreadable", TRUE, <<>>)

\* text the lexer or the parser rejects
BadLine == Line("code", FALSE, <<>>)

Code(node) == Line("code", TRUE, <<node>>)

\* `3;`, `var x = 3;`, `x;`, `y;` and `2 / 0;`
CodeLines ==
    {Code(IntLit(3)), Code(VarDecl(NameX, 3)), Code(Leaf("Identifier", NameX)),
     Code(Leaf("Identifier", NameY)), Code(Bin("Divide", IntLit(2), IntLit(0)))}

ReplLines == {ExitLine, HelpLine, Unreadable, BadLine} \cup CodeLines

\* the statements of the accumulated source
RECURSIVE SourceNodes(_)
SourceNodes(source) ==
    IF source = <<>> THEN <<>> ELSE source[1].nodes \o SourceNodes(Tail(source))

SourceParses(source) == \A i \in 1..Len(source) : source[i].parses

\* no Emitter has been constructed
NoEmitter == [Emitter_new(Root(<<>>)) EXCEPT !.status = "none"]

\* the loop body up to Emitter::new: [repl, emitter]
read_line(r0, line) ==
    LET r == [r0 EXCEPT !.read = @ + 1, !.line = line]
        Continue(rr) == [repl |-> rr, emitter |-> NoEmitter]
        source == Append(r0.source, line)
    IN CASE line.cmd = "unreadable" ->
                Continue([r EXCEPT !.out = <<"Could not read input.">>])
         [] line.cmd = "exit" -> Continue([r EXCEPT !.status = "exited", !.out = <<>>])
         [] line.cmd = "help" -> Continue([r EXCEPT !.out = <<"help">>])
         [] OTHER ->
                IF ~SourceParses(source)
                THEN Continue([r EXCEPT !.source = source, !.out = <<"diagnostic", "syntax">>])
                ELSE [repl |-> [r EXCEPT !.source = source, !.status = "compiling",
                                         !.out = <<>>],
                      emitter |-> Emitter_new(Root(SourceNodes(source)))]

\* the pass has come to its end: a call returned Err or panicked, or finalize
\* returned
PassEnded(e, m) ==
    e.status \in {"err", "panic"} \/ m.status \in {"err", "panic", "ub", "finalized"}

\* how the loop body ends: ok_or_printerr! prints a returned error and
\* continues, a panic unwinds out of serve_repl, println shows the result
report(r, e, m, heap, res) ==
    LET Printed(x) == [r EXCEPT !.status = "reading", !.out = x]
        Panicked(msg) == [r EXCEPT !.status = "panicked", !.out = <<"panic", msg>>]
    IN IF e.status = "err" THEN Printed(<<"diagnostic", e.msg>>)
       ELSE IF e.status = "panic" THEN Panicked(e.msg)
       ELSE IF m.status = "err" /\ m.bytecode = <<>> THEN Panicked("could not create VM")
       ELSE IF m.status = "err" THEN Printed(<<"diagnostic", m.msg>>)
       ELSE IF m.status = "finalized" THEN Printed(<<"result", Datum(heap, res[1])>>)
       ELSE Panicked(m.msg)

ReplInit ==
    /\ build \in {"debug", "release"}
    /\ input = <<>>
    /\ emitter = NoEmitter
    /\ stream = <<>>
    /\ vm = NoVM
    /\ mem = <<>>
    /\ result = <<>>
    /\ repl = [NoRepl EXCEPT !.status = "reading"]
    /\ WordIdle

\* the user types a line: readline up to Emitter::new
ReadLine ==
    /\ repl.status = "reading"
    /\ repl.read < MaxLines
    /\ \E line \in ReplLines :
          /\ repl' = read_line(repl, line).repl
          /\ emitter' = read_line(repl, line).emitter
    /\ stream' = <<>> /\ vm' = NoVM /\ mem' = <<>> /\ result' = <<>>
    /\ UNCHANGED <<word, prev, op, build, input>>

\* the end of the loop body
Report ==
    /\ repl.status = "compiling"
    /\ PassEnded(emitter, vm)
    /\ repl' = report(repl, emitter, vm, mem, result)
    /\ UNCHANGED <<word, prev, op, build, input, emitter, stream, vm, mem, result>>

ReplNext ==
    ReadLine \/ Emit \/ WriteToStream \/ FromCompiledStream \/ RunStep \/ Finalize \/ Report

SpecRepl == ReplInit /\ [][ReplNext]_allVars

(***************************************************************************)
(* Properties of the Word setters (SpecWord)                               *)
(***************************************************************************)
\* the bits of a outside mask
Outside(a, mask) == BitAnd(a, BitNot(mask))

\* C6: every setter call changes no bit outside the field it sets: set_tag
\* only bits 0..4, set_opcode only bits 4..10, set_aux only bits 10..32,
\* set_value only bits 32..64, whatever argument it was called with.
C6_FieldIndependence ==
    /\ op[1] = "set_tag" => Outside(word, TAG_MASK) = Outside(prev, TAG_MASK)
    /\ op[1] = "set_opcode" => Outside(word, OPCODE_MASK) = Outside(prev, OPCODE_MASK)
    /\ op[1] = "set_aux" => Outside(word, AUX_MASK) = Outside(prev, AUX_MASK)
    /\ op[1] = "set_value" => Outside(word, PTR_MASK) = Outside(prev, PTR_MASK)

(***************************************************************************)
(* Properties of the VM on hand-built bytecode (SpecVM)                    *)
(***************************************************************************)
Failed == vm.status \in {"err", "panic", "ub"}

Done == vm.status = "finalized" \/ Failed

\* what the caller of run and finalize observes: the Word returned with
\* the value it stands for, or the kind of failure
Observed ==
    IF vm.status = "finalized" THEN <<"word", result[1], Datum(mem, result[1])>>
    ELSE <<vm.status>>

\* the same observation, of a whole run on the bytecode of a test case
RunOutcome(c, debug) ==
    LET p == TestProgram(c)
        r == run(from_bytecode_only(p.bytecode), p.heap, debug)
        f == finalize(r.vm, debug)
    IN IF r.vm.status # "ok" THEN <<r.vm.status>>
       ELSE IF f.vm.status # "finalized" THEN <<f.vm.status>>
       ELSE <<"word", f.result[1], Datum(r.heap, f.result[1])>>

ArithOps == <<"Add", "Subtract", "Multiply", "Divide", "Modulo">>

LogicalOps == <<"LogicalAnd", "LogicalOr", "LogicalXor">>

\* the operand tags a binary operator is defined on
Accepts(opc, t) ==
    IF IsIn(ArithOps, opc) THEN t \in {"Int", "Float"}
    ELSE IF IsIn(LogicalOps, opc) THEN t = "Bool"
    ELSE t \in {"Int", "Bool", "Char", "Float"}

\* C1: a finished run on [Value v, OpThis w, Stop] has the outcome of the run
\* on [Value v, Value w, Op, Stop]: the same Word from finalize (standing
\* for the same value), or a failure in both.
C1_EmbeddedOperandEquivalence ==
    (Done /\ input.kind = "binary" /\ input.form = "this" /\ Accepts(input.op, input.a[1]))
        => Observed = RunOutcome([input EXCEPT !.form = "plain"], build = "debug")

C1_Witness ==
    /\ vm.status = "finalized"
    /\ input.kind = "binary" /\ input.form = "this" /\ input.op = "Subtract"
    /\ input.a = <<"Int", 2>> /\ input.b = <<"Int", -1>>
    /\ result = <<Word_int(3, "Value")>>

\* the Word of the operand of an option test case, as a Value
OperandWord == Literal(<<>>, input.a, "Value").w

\* C7: wrapping a non-none x and unwrapping it leaves exactly x on the
\* stack, at the depth x alone would have; unwrapping None stops the run
\* with a VM error and leaves nothing on the stack.
C7_OptionDiscipline ==
    input.kind = "option" =>
        IF input.a # NoLiteral
        THEN /\ ~Failed
             /\ vm.status = "ok" =>
                    /\ vm.stack = <<OperandWord>>
                    /\ Datum(mem, Top(vm)) = Datum(TestProgram(input).heap, OperandWord)
        ELSE /\ vm.status \in {"run", "err"}
             /\ vm.status = "run" => vm.ip < Len(vm.bytecode) - 1
             /\ vm.status = "err" => vm.stack = <<>>

C7_WitnessSome ==
    /\ input.kind = "option" /\ input.form = "this" /\ input.a = <<"Int", -1>>
    /\ vm.status = "ok" /\ vm.stack = <<Word_int(-1, "Value")>>

C7_WitnessNone ==
    /\ input.kind = "option" /\ input.form = "plain" /\ input.a = NoLiteral
    /\ vm.status = "err" /\ vm.msg = "unwrap option from non-option value"

C7_Witness == C7_WitnessSome \/ C7_WitnessNone

\* |r| < |b|, for b # 0
SmallerMagnitude(r, b) ==
    IF r >= 0 THEN (IF b > 0 THEN r < b ELSE -r > b)
    ELSE (IF b > 0 THEN r > -b ELSE r > b)

\* r is zero or has the sign of a
SignOfOrZero(r, a) == r = 0 \/ ((r > 0) = (a > 0))

\* b divides n, for b # 0
Divides(b, n) ==
    IF b > 0 THEN n % b = 0
    ELSE IF b = MinI32 THEN n \in {0, MinI32}
    ELSE n % (-b) = 0

\* the exact result of a op b is representable in i32
FitsI32(opc, a, b) ==
    CASE opc = "Add" -> ~AddOverflows(a, b)
      [] opc = "Subtract" -> ~SubOverflows(a, b)
      [] opc = "Multiply" -> ~MulOverflows(a, b)
      [] opc = "Divide" -> b # 0 /\ ~(a = MinI32 /\ b = -1)
      [] opc = "Modulo" -> b # 0

\* r is the exact result of a op b, stated without the operators of the model:
\* the quotient leaves a remainder smaller than the divisor with the sign of
\* the dividend; the remainder is such a number that differs from the
\* dividend by a multiple of the divisor
IsExactResult(opc, r, a, b) ==
    CASE opc = "Add" -> r = a + b
      [] opc = "Subtract" -> r = a - b
      [] opc = "Multiply" -> r = a * b
      [] opc = "Divide" ->
            /\ ~MulOverflows(r, b)
            /\ SmallerMagnitude(a - r * b, b)
            /\ SignOfOrZero(a - r * b, a)
      [] opc = "Modulo" ->
            SmallerMagnitude(r, b) /\ SignOfOrZero(r, a) /\ Divides(b, a - r)

IntArithmeticCase ==
    /\ input.kind = "binary" /\ IsIn(ArithOps, input.op)
    /\ input.a[1] = "Int" /\ input.b[1] = "Int"

\* C8: Int operands whose exact result fits i32: the run does not fail, and
\* after the operator the stack holds one Int Word with opcode Value whose
\* value is the exact result (Divide truncates toward zero, Modulo has the
\* sign of the dividend), in plain and in This form.
C8_IntegerArithmetic ==
    (IntArithmeticCase /\ FitsI32(input.op, input.a[2], input.b[2])) =>
        /\ ~Failed
        /\ vm.status = "ok" =>
              /\ Len(vm.stack) = 1
              /\ tag(Top(vm)) = "Int" /\ opcode(Top(vm)) = "Value"
              /\ IsExactResult(input.op, to_int(Top(vm)), input.a[2], input.b[2])

\* the run C8 speaks of that fails: i32::MIN % -1
C8_Failure ==
    /\ IntArithmeticCase /\ input.op = "Modulo"
    /\ input.a[2] = MinI32 /\ input.b[2] = -1
    /\ vm.status = "panic"

ZeroDivisor == input.op \in {"Divide", "Modulo"} /\ input.b[2] = 0

\* C29: on two Int operands, Add, Subtract, Multiply, Divide and Modulo end
\* with a VM error only for Divide or Modulo by 0; for every other pair,
\* results outside i32 and i32::MIN / -1 included, the run does not stop
\* and the operator leaves an Int Word with opcode Value on the stack.
C29_OnlyZeroDivisorFails ==
    IntArithmeticCase =>
        /\ vm.status = "err" => ZeroDivisor
        /\ ~ZeroDivisor =>
              /\ ~Failed
              /\ vm.status = "ok" =>
                    tag(Top(vm)) = "Int" /\ opcode(Top(vm)) = "Value"

\* the run C29 speaks of that stops: i32::MAX + 1 in a debug build
C29_Failure ==
    /\ IntArithmeticCase /\ input.op = "Add" /\ build = "debug"
    /\ input.a[2] = MaxI32 /\ input.b[2] = 1
    /\ vm.status = "panic"

\* the run C29 speaks of that stops in every build: i32::MIN / -1
C29_DivideFailure ==
    /\ IntArithmeticCase /\ input.op = "Divide" /\ build = "release"
    /\ input.a[2] = MinI32 /\ input.b[2] = -1
    /\ vm.status = "panic"

\* the index of the operator Word in the bytecode of a binary test case
OperatorIndex == IF input.form = "this" THEN 2 ELSE 3

\* C9: Divide and Modulo (plain and This) by the Int 0: the run ends at the
\* operator with a VM error, and the stack then holds the dividend Word as
\* it was pushed.
C9_DivisionByZero ==
    (/\ input.kind = "binary" /\ input.op \in {"Divide", "Modulo"}
     /\ input.a[1] = "Int" /\ input.b = <<"Int", 0>>) =>
        /\ vm.status \in {"run", "err"}
        /\ vm.ip <= OperatorIndex
        /\ vm.status = "err" =>
              /\ vm.ip = OperatorIndex
              /\ vm.stack = <<Word_int(input.a[2], "Value")>>

C9_Witness ==
    /\ input.kind = "binary" /\ input.op = "Modulo" /\ input.form = "plain"
    /\ input.a = <<"Int", -2>> /\ input.b = <<"Int", 0>>
    /\ vm.status = "err" /\ vm.msg = "modulo by zero"
    /\ vm.stack = <<Word_int(-2, "Value")>>

OrderingOps == {"GreaterThan", "LessThan", "GreaterThanEq", "LessThanEq"}

\* the relation an ordering opcode stands for, on signed integers
Holds(opc, a, b) ==
    CASE opc = "GreaterThan" -> a > b
      [] opc = "LessThan" -> a < b
      [] opc = "GreaterThanEq" -> a >= b
      [] OTHER -> a <= b

\* C23: on Int operands a and b, negative ones included, GreaterThan,
\* LessThan, GreaterThanEq and LessThanEq (plain and This) leave one Bool Word
\* with opcode Value that is true exactly when the relation holds for a and b
\* as signed 32-bit integers.
C23_SignedComparison ==
    (/\ input.kind = "binary" /\ input.op \in OrderingOps
     /\ input.a[1] = "Int" /\ input.b[1] = "Int") =>
        /\ ~Failed
        /\ vm.status = "ok" =>
              vm.stack = <<Word_bool(Holds(input.op, input.a[2], input.b[2]), "Value")>>

\* the run C23 fails on: -1 < 1 is false
C23_Failure ==
    /\ input = [kind |-> "binary", form |-> "plain", op |-> "LessThan",
                a |-> <<"Int", -1>>, b |-> <<"Int", 1>>]
    /\ vm.status = "ok"
    /\ vm.stack = <<Word_bool(FALSE, "Value")>>

\* the Bool a comparison opc yields on the operands of the test case: <<b>>,
\* or <<>> when the run fails or leaves anything but a Bool Word
Verdict(opc) ==
    LET o == RunOutcome([input EXCEPT !.op = opc], build = "debug") IN
    IF o[1] = "word" /\ o[2] = Word_bool(TRUE, "Value") THEN <<TRUE>>
    ELSE IF o[1] = "word" /\ o[2] = Word_bool(FALSE, "Value") THEN <<FALSE>>
    ELSE <<>>

PureOperands ==
    /\ input.kind = "binary"
    /\ input.a[1] \in {"Int", "Bool", "Char"}
    /\ input.b[1] = input.a[1]

ComparisonOps == OrderingOps \cup {"Equals", "NotEquals"}

\* C24: on two values of one pure tag exactly one of LessThan, Equals,
\* GreaterThan yields true, NotEquals is the negation of Equals,
\* GreaterThanEq of LessThan, and LessThanEq of GreaterThan.
C24_ComparisonTotality ==
    (PureOperands /\ input.op \in ComparisonOps /\ Done) =>
        LET V == [opc \in ComparisonOps |-> Verdict(opc)] IN
        /\ vm.status = "finalized"
        /\ <<result[1] = Word_bool(TRUE, "Value")>> = V[input.op]
        /\ \A opc \in ComparisonOps : V[opc] # <<>>
        /\ Cardinality({opc \in {"LessThan", "Equals", "GreaterThan"} : V[opc] = <<TRUE>>}) = 1
        /\ V["NotEquals"] # V["Equals"]
        /\ V["GreaterThanEq"] # V["LessThan"]
        /\ V["LessThanEq"] # V["GreaterThan"]

C24_Witness ==
    /\ PureOperands /\ input.op = "GreaterThanEq" /\ input.form = "plain"
    /\ input.a = <<"Char", 97>> /\ input.b = <<"Char", 97>>
    /\ vm.status = "finalized"
    /\ result = <<Word_bool(TRUE, "Value")>>
    /\ Verdict("LessThan") = <<FALSE>> /\ Verdict("Equals") = <<TRUE>>

(***************************************************************************)
(* Properties of the pipeline (Spec)                                       *)
(***************************************************************************)
Statements == input.children

\* the emitter after the first k statements of the input were emitted and pushed
AfterStatements(k) ==
    emit_children(Emitter_new(input), SubSeq(Statements, 1, k), 1, build = "debug")

\* the jump slots of the first statement when it is an If or an Else (or
\* an Else of an If), each with the index (from 0) of the slot and of the
\* first Word after its construct
SlotAfter(e0, node) ==
    Len(emit_node(e0, first_child(node), build = "debug").e.bytecode) + 1

FirstStatementJumps ==
    LET st == Statements[1]
        e0 == Emitter_new(input)
        post == Len(AfterStatements(1).bytecode)
    IN IF st.kind = "If"
       THEN {[slot |-> SlotAfter(e0, st), post |-> post, opc |-> "JumpIfFalse"]}
       ELSE IF st.kind = "Else"
       THEN {[slot |-> SlotAfter(e0, st), post |-> post, opc |-> "JumpIfNo"]}
            \cup (IF first_child(st).kind = "If"
                  THEN {[slot |-> SlotAfter(e0, first_child(st)),
                         post |-> SlotAfter(e0, st), opc |-> "JumpIfFalse"]}
                  ELSE {})
       ELSE {}

\* C2: the payload of every emitted JumpIfFalse / JumpIfNo Word is the number
\* of Words between the slot and the first Word after the construct, whatever
\* the branch is, so the target of the jump is that Word, inside the bytecode.
C2_JumpTargets ==
    emitter.status = "emitted" =>
        \A j \in FirstStatementJumps :
            LET w == emitter.bytecode[j.slot + 1]
                target == j.slot + 1 + ToNat(value(w))
            IN /\ opcode(w) = j.opc
               /\ ToNat(value(w)) = j.post - (j.slot + 1)
               /\ target = j.post
               /\ target < Len(emitter.bytecode)

\* the case C2 fails on: an If whose branch is a bare literal
C2_Failure ==
    /\ emitter.status = "emitted"
    /\ input = Root(<<IfNode(BoolLit(FALSE), IntLit(2))>>)
    /\ opcode(emitter.bytecode[2]) = "JumpIfFalse"
    /\ 2 + ToNat(value(emitter.bytecode[2])) = Len(emitter.bytecode)

\* the Words a binary node is to emit, from the emission of its operands
BinaryEmission(node) ==
    LET lhs == emit_node(Emitter_new(input), first_child(node), build = "debug")
        rhs == emit_node(Emitter_new(input), last_child(node), build = "debug")
    IN lhs.e.bytecode \o <<lhs.w>> \o rhs.e.bytecode
       \o (IF opcode(rhs.w) = "Value" THEN <<set_opcode(rhs.w, ThisOf(node.kind))>>
           ELSE <<rhs.w, Word_int(0, node.kind)>>)

\* C10: a binary node emits its left operand, then its right operand with
\* the operator embedded in the right Word when that Word is a Value, and
\* followed by a plain operator Word otherwise; `3+2;`, `2+3*4;` and
\* `3*4+2;` emit the Words the scenarios list.
C10_EmbeddedOperandEmission ==
    (emitter.status = "emitted" /\ Len(Statements) = 1
        /\ IsIn(EmitterBinary, Statements[1].kind)
        /\ Statements[1].children[1].kind # "Float") =>
        /\ emitter.bytecode = BinaryEmission(Statements[1]) \o <<StopWord>>
        /\ input = Root(<<Bin("Add", IntLit(3), IntLit(2))>>) =>
              emitter.bytecode = <<Word_int(3, "Value"), Word_int(2, "AddThis"), StopWord>>
        /\ input = Root(<<Bin("Add", IntLit(2), Bin("Multiply", IntLit(3), IntLit(4)))>>) =>
              emitter.bytecode = <<Word_int(2, "Value"), Word_int(3, "Value"),
                                   Word_int(4, "MultiplyThis"), Word_int(0, "Add"), StopWord>>
        /\ input = Root(<<Bin("Add", Bin("Multiply", IntLit(3), IntLit(4)), IntLit(2))>>) =>
              emitter.bytecode = <<Word_int(3, "Value"), Word_int(4, "MultiplyThis"),
                                   Word_int(2, "AddThis"), StopWord>>

C10_Witness ==
    /\ emitter.status = "emitted"
    /\ input = Root(<<Bin("Add", IntLit(2), Bin("Multiply", IntLit(3), IntLit(4)))>>)
    /\ Len(emitter.bytecode) = 5
    /\ opcode(emitter.bytecode[3]) = "MultiplyThis" /\ opcode(emitter.bytecode[4]) = "Add"

\* C5: the VM from_compiled_stream builds from the bytes write_to_stream
\* wrote has the emitter's bytecode bit for bit and its pools entry for
\* entry (every string present), ip 0 and empty stack and locals.
C5_RoundTrip ==
    [][(vm.status = "none" /\ vm'.status # "none") =>
          /\ vm'.status = "run"
          /\ vm'.bytecode = emitter.bytecode
          /\ vm'.heap_floats = emitter.heap_floats
          /\ vm'.heap_strings = [k \in 1..Len(emitter.heap_strings) |->
                                    <<emitter.heap_strings[k]>>]
          /\ vm'.ip = 0 /\ vm'.stack = <<>> /\ vm'.vars = <<>>]_allVars

C5_Witness ==
    /\ vm.status = "run" /\ vm.ip = 0
    /\ vm.bytecode = emitter.bytecode /\ Len(vm.bytecode) = 4
    /\ vm.heap_floats = <<(<<-2, 1>>)>>
    /\ vm.heap_strings = <<(<<StrTexts[2]>>), (<<StrTexts[1]>>)>>

\* the integer a literal, a scope of one expression or a sum stands for
RECURSIVE Eval(_)
Eval(node) ==
    IF node.kind = "Int" THEN ParseI32(node.text)[1]
    ELSE IF node.kind = "Scope" THEN Eval(first_child(node))
    ELSE Eval(first_child(node)) + Eval(last_child(node))

\* the option an operand of Else stands for: <<>> for none, <<v>> for Some(v)
OptionOf(node) ==
    IF node.kind = "If"
    THEN IF first_child(node).text = TrueText THEN <<Eval(last_child(node))>> ELSE <<>>
    ELSE IF node.children = <<>> THEN <<>>
    ELSE <<Eval(first_child(node))>>

\* the indices (from 0) of the Words of the branch of the first statement
\* that lie before the last Word of the statement
BranchWords ==
    (SlotAfter(Emitter_new(input), Statements[1]) + 1) .. (Len(AfterStatements(1).bytecode) - 2)

\* C3: `if C B` leaves Some(value of B) when C is true and None when C is
\* false, executes no Word of B when C is false, and a following statement
\* still evaluates (`if false {2}; 3;` yields 3).
C3_IfSemantics ==
    Statements[1].kind = "If" =>
        LET C == first_child(Statements[1]).text = TrueText
            B == last_child(Statements[1])
        IN /\ ~Failed
           /\ (vm.status = "finalized" /\ Len(Statements) = 1) =>
                  Datum(mem, result[1]) =
                      <<"OptionPtr",
                        HeapObj("option", IF C THEN <<Word_int(Eval(B), "Value")>> ELSE <<>>)>>
           /\ (vm.status = "finalized" /\ Len(Statements) = 2) =>
                  result[1] = Word_int(Eval(Statements[2]), "Value")
           /\ (~C /\ vm.status # "none") =>
                  /\ vm.out = <<>>
                  /\ vm.status = "run" => vm.ip \notin BranchWords

\* the case C3 fails on: after `if false {2};` the run ends with an empty stack
C3_Failure ==
    /\ input = Root(<<IfNode(BoolLit(FALSE), ScopeOf(IntLit(2)))>>)
    /\ vm.status = "ok" /\ vm.stack = <<>> /\ vm.ip = Len(vm.bytecode)

\* the step of a JumpIfNo Word whose operand is an option
JumpIfNoStep ==
    /\ vm.status = "run" /\ vm.ip < Len(vm.bytecode)
    /\ opcode(vm.bytecode[vm.ip + 1]) = "JumpIfNo"
    /\ vm.stack # <<>> /\ Datum(mem, Top(vm))[1] = "OptionPtr"
    /\ vm' # vm

\* C4: `X else B` yields the inner value of X when X is Some(v), without
\* executing B, and the value of B when X is None (`no else {3}` yields 3,
\* `2? else {3}` yields 2); JumpIfNo pops the option and adds its payload
\* to ip exactly when the option is none.
C4_ElseSemantics ==
    [][Statements[1].kind = "Else" =>
          LET X == OptionOf(first_child(Statements[1]))
              B == last_child(Statements[1])
          IN /\ ~Failed'
             /\ (vm'.status = "finalized" /\ Len(Statements) = 1) =>
                    result'[1] = Word_int(IF X = <<>> THEN Eval(B) ELSE X[1], "Value")
             /\ (X # <<>> /\ vm'.status = "run") =>
                    vm'.ip \notin BranchWords \cup {Len(AfterStatements(1).bytecode) - 1}
             /\ JumpIfNoStep =>
                    /\ vm'.stack = Pop(vm).stack
                    /\ vm'.ip = vm.ip + 1
                          + (IF Datum(mem, Top(vm))[2].val = <<>>
                             THEN ToNat(value(vm.bytecode[vm.ip + 1])) ELSE 0)]_allVars

\* the case C4 fails on: after `no else {3};` the run ends with an empty stack
C4_Failure ==
    /\ input = Root(<<ElseNode(NoOption, ScopeOf(IntLit(3)))>>)
    /\ vm.status = "ok" /\ vm.stack = <<>> /\ vm.ip = Len(vm.bytecode)

\* the first statement is a binary operator whose right operand is a float
\* or string literal
ReferenceOperand ==
    /\ emitter.status = "emitted" /\ Len(Statements) = 1
    /\ IsIn(EmitterBinary, Statements[1].kind)
    /\ last_child(Statements[1]).kind \in {"Float", "Str"}

ReferenceTag == IF last_child(Statements[1]).kind = "Float" THEN "FloatPtr" ELSE "StrPtr"

\* C11 as stated: a float or string literal as right operand is embedded: one
\* OpThis Word carries the reference, no operand Word and no plain Op Word.
C11_ReferencesEmbedded ==
    ReferenceOperand =>
        /\ Len(emitter.bytecode) = 3
        /\ opcode(emitter.bytecode[2]) = ThisOf(Statements[1].kind)
        /\ tag(emitter.bytecode[2]) = ReferenceTag

\* C11 amended: a float or string literal as right operand is not embeddable:
\* its ReadFromMap Word is pushed and a plain Op Word follows it.
C11_ReferencesPushed ==
    ReferenceOperand =>
        /\ Len(emitter.bytecode) = 4
        /\ opcode(emitter.bytecode[2]) = "ReadFromMap"
        /\ tag(emitter.bytecode[2]) = ReferenceTag
        /\ emitter.bytecode[3] = Word_int(0, Statements[1].kind)
        /\ emitter.bytecode[4] = StopWord

C11_Witness ==
    /\ ReferenceOperand
    /\ input = Root(<<Bin("Add", Leaf("Float", FloatTexts[1]), Leaf("Float", FloatTexts[2]))>>)
    /\ emitter.heap_floats = <<(<<3, 2>>), (<<1, 4>>)>>
    /\ opcode(emitter.bytecode[3]) = "Add"

\* C12: on emitted bytecode every dispatch reads bytecode[ip] with ip inside
\* the bytecode and leaves ip strictly larger, and the run ends at Stop or
\* with a VM error (so the run halts within Len(bytecode) dispatches).
C12_Termination ==
    [][vm.status = "run" =>
          /\ vm.ip < Len(vm.bytecode)
          /\ vm'.status \in {"run", "ok", "err"}
          /\ vm'.status = "run" => vm'.ip > vm.ip]_allVars

\* the case C12 fails on: the taken jump of `if false 2;` leaves ip at the
\* length of the bytecode and the next fetch is out of bounds
C12_Failure ==
    /\ input = Root(<<IfNode(BoolLit(FALSE), IntLit(2))>>)
    /\ vm.status = "panic" /\ vm.msg = "index out of bounds"
    /\ vm.ip = Len(vm.bytecode)

IsFloatRef(w) == opcode(w) = "ReadFromMap" /\ tag(w) = "FloatPtr"

IsStrRef(w) == opcode(w) = "ReadFromMap" /\ tag(w) = "StrPtr"

\* the value a float or string literal stands for
LiteralValue(node) == IF node.kind = "Float" THEN ParseF64(node.text)[1] ELSE node.text

\* the statements are literals of the pools only
LiteralStatements == \A k \in 1..Len(Statements) : Statements[k].kind \in {"Float", "Str"}

\* C14: the ReadFromMap Word of the k-th float (string) literal of a program
\* carries payload k - 1, the index of that literal in heap_floats
\* (heap_strings), and running a program of such literals pushes each
\* literal's own value.
C14_PoolIndices ==
    emitter.status = "emitted" =>
        LET F == SelectSeq(emitter.bytecode, IsFloatRef)
            S == SelectSeq(emitter.bytecode, IsStrRef)
        IN /\ Len(F) = Len(emitter.heap_floats)
           /\ \A k \in 1..Len(F) : ToNat(value(F[k])) = k - 1
           /\ Len(S) = Len(emitter.heap_strings)
           /\ \A k \in 1..Len(S) : ToNat(value(S[k])) = k - 1
           /\ LiteralStatements =>
                 /\ ~Failed
                 /\ vm.status = "ok" =>
                       /\ Len(vm.stack) = Len(Statements)
                       /\ \A k \in 1..Len(Statements) :
                             Datum(mem, vm.stack[k])[2].val = LiteralValue(Statements[k])

\* the case C14 fails on: the second string literal is emitted with payload 0
C14_Failure ==
    /\ emitter.status = "emitted" /\ LiteralStatements /\ Len(Statements) = 3
    /\ Len(emitter.heap_strings) = 2
    /\ IsStrRef(emitter.bytecode[3]) /\ ToNat(value(emitter.bytecode[3])) = 0
    /\ vm.status = "panic" /\ vm.msg = "string already taken"

\* the option a table literal holds for the key value k: <<v>> or <<>>
TableLookup(t, k) ==
    LET hits == {i \in 1..Len(t.children) :
                    /\ first_child(t.children[i]).kind = "Int"
                    /\ Eval(first_child(t.children[i])) = k}
        defaults == {i \in 1..Len(t.children) : first_child(t.children[i]).kind = "DefaultKey"}
        Last(S) == CHOOSE i \in S : \A j \in S : j <= i
    IN IF hits # {} THEN <<Eval(last_child(t.children[Last(hits)]))>>
       ELSE IF defaults # {} THEN <<Eval(last_child(t.children[Last(defaults)]))>>
       ELSE <<>>

\* C18: indexing table T with key k, with the table and the key laid out as
\* the emitter emits them, consumes both and leaves Some(T[k]) when k is a key
\* of T, otherwise Some(T[default]) when T has the default arm, otherwise None.
C18_TableIndexing ==
    Statements[1].kind = "TableIndexing" =>
        LET T == first_child(Statements[1])
            k == Eval(last_child(Statements[1]))
            found == TableLookup(T, k)
        IN /\ ~Failed
           /\ vm.status = "ok" => Len(vm.stack) = 1
           /\ vm.status = "finalized" =>
                  Datum(mem, result[1]) =
                      <<"OptionPtr",
                        HeapObj("option", IF found = <<>> THEN <<>>
                                          ELSE <<Word_int(found[1], "Value")>>)>>

\* the case C18 fails on: `[2: 4, 3: 2][0 + 2]`, whose key is pushed
C18_Failure ==
    /\ input = Root(<<Node("TableIndexing",
                  <<Node("Table", <<Pair(IntLit(2), IntLit(4)), Pair(IntLit(3), IntLit(2))>>),
                    Bin("Add", IntLit(0), IntLit(2))>>)>>)
    /\ vm.status = "panic"
    /\ vm.ip = 8
    /\ opcode(vm.bytecode[8]) = "IndexGet"

\* the (name, scope depth) of every VarDecl of a node list, in source order
RECURSIVE Decls(_, _, _)
Decls(children, i, depth) ==
    IF i > Len(children) THEN <<>>
    ELSE LET n == children[i]
             here == IF n.kind = "VarDecl"
                     THEN <<[name |-> FirstToken(n.text), scope |-> depth]>>
                     ELSE IF n.kind = "Scope" THEN Decls(n.children, 1, depth + 1)
                     ELSE IF n.kind \in {"If", "Else"} THEN Decls(n.children, 1, depth)
                     ELSE <<>>
         IN here \o Decls(children, i + 1, depth)

\* the Identifier a program ends in: <<node>>, or <<>>
RECURSIVE LastIdentifier(_)
LastIdentifier(node) ==
    IF node.kind = "Identifier" THEN <<node>>
    ELSE IF node.kind \in {"Root", "Scope"} /\ node.children # <<>>
         THEN LastIdentifier(last_child(node))
    ELSE <<>>

\* the indices (from 0) of the entries of a local-variable table with a name
Entries(locals, name) == {i - 1 : i \in {j \in 1..Len(locals) : locals[j].name = name}}

\* a table that holds one (name, scope) twice
Duplicated(locals) ==
    \E i, j \in 1..Len(locals) : i < j /\ locals[i] = locals[j]

\* C19: emitting an Identifier gives a GetLocal Word whose aux is the largest
\* index of the local-variable table that holds the identifier's name; when no
\* entry holds it, emit returns an emit error.
C19_IdentifierResolution ==
    (LastIdentifier(input) # <<>> /\ emitter.status # "new") =>
        LET found == Entries(Decls(Statements, 1, 0), LastIdentifier(input)[1].text)
            loads == SelectSeq(emitter.bytecode, LAMBDA w : opcode(w) = "GetLocal")
        IN IF found = {} THEN emitter.status = "err"
           ELSE /\ emitter.status = "emitted"
                /\ Len(loads) = 1
                /\ aux(loads[1]) \in found
                /\ \A i \in found : i <= aux(loads[1])

\* the case C19 fails on: `x` with no declaration
C19_Failure ==
    /\ input = Root(<<Leaf("Identifier", NameX)>>)
    /\ emitter.status = "panic"
    /\ emitter.msg = "did not find varname in already defined vars"

\* C20: a VarDecl of a name already registered at the same scope depth is
\* rejected with a semantic error returned by emit and registers no second
\* entry; a VarDecl of the same name at another depth is accepted.
C20_DuplicateDeclaration ==
    (input \in DeclPrograms /\ emitter.status # "new") =>
        IF Duplicated(Decls(Statements, 1, 0))
        THEN /\ emitter.status = "err"
             /\ ~Duplicated(emitter.local_variables)
        ELSE /\ emitter.status = "emitted"
             /\ emitter.local_variables = Decls(Statements, 1, 0)

\* the case C20 fails on: `var x = 3; var x = 4;` in a release build
C20_Failure ==
    /\ build = "release"
    /\ input = Root(<<VarDecl(NameX, 3), VarDecl(NameX, 4)>>)
    /\ emitter.status = "emitted"
    /\ emitter.local_variables =
           <<[name |-> NameX, scope |-> 0], [name |-> NameX, scope |-> 0]>>

(***************************************************************************)
(* Properties of the VM on hand-built cases (SpecCases)                    *)
(***************************************************************************)
\* C13: of two ReadFromMap Words that name the same pool entry (float or
\* string) the second is a VM error and pushes nothing; two Words that
\* name different entries each push their entry.
C13_TakeOnce ==
    (input.kind = "pool" /\ vm.ip >= 2) =>
        IF input.a = input.b
        THEN vm.status = "err" /\ Len(vm.stack) = 1
        ELSE /\ ~Failed
             /\ vm.status = "ok" => Len(vm.stack) = 2

\* the case C13 fails on: float entry 0 is read twice and pushed twice
C13_Failure ==
    /\ input.kind = "pool" /\ input.op = "FloatPtr" /\ input.a = 0 /\ input.b = 0
    /\ vm.status = "ok" /\ Len(vm.stack) = 2
    /\ Datum(mem, vm.stack[1])[2].val = PoolFloats[1]
    /\ Datum(mem, vm.stack[2])[2].val = PoolFloats[1]

\* C15: finalize returns the Word that is topmost on the stack when the run
\* stopped (3 for `if false {2}; 3;`), and reports a VM error when the stack
\* is empty.
C15_Finalize ==
    [][(vm.status = "ok" /\ vm'.status # "ok") =>
          IF vm.stack = <<>> THEN vm'.status = "err"
          ELSE /\ vm'.status = "finalized"
               /\ result' = <<Top(vm)>>
               /\ input.kind = "program" => result' = <<Word_int(3, "Value")>>]_allVars

\* the case C15 fails on: finalize after a run of [Stop]
C15_Failure ==
    /\ input.kind = "values" /\ input.a = 0
    /\ vm.bytecode = <<StopWord>> /\ vm.ip = 1
    /\ vm.status = "panic" /\ vm.msg = "stack underflow"

\* C16: every popping opcode executed with fewer Words on the stack than its
\* arity ends the run with the VM error "stack underflow".
C16_StackUnderflow ==
    (input.kind = "underflow" /\ vm.ip > input.a) =>
        /\ vm.status = "err"
        /\ vm.msg = "stack underflow"

\* the case C16 fails on: Add on an empty stack
C16_Failure ==
    /\ input = [kind |-> "underflow", op |-> "Add", a |-> 0, b |-> 0]
    /\ vm.ip = 1 /\ vm.stack = <<>>
    /\ vm.status = "panic"

\* C17: a binary arithmetic, logic or comparison operator applied to two
\* Words with different tags ends the run with a VM error, and no result is
\* computed from the two payloads.
C17_TagMismatch ==
    (input.kind = "mixed" /\ vm.ip >= (IF input.form = "this" THEN 2 ELSE 3)) =>
        vm.status = "err"

\* the case C17 fails on: Add on Int 2 and Bool true in a release build
C17_Failure ==
    /\ build = "release"
    /\ input = [kind |-> "mixed", form |-> "plain", op |-> "Add",
                a |-> <<"Int", 2>>, b |-> <<"Bool", TRUE>>]
    /\ vm.status = "ok"
    /\ vm.stack = <<Word_int(3, "Value")>>

(***************************************************************************)
(* Properties of the loader (SpecLoad)                                     *)
(***************************************************************************)
\* C21: loading a stream in which one of the four section markers differs
\* from 1, 2, 3, 4 at its position returns a load error and constructs no VM.
C21_SectionFraming ==
    (vm.status # "none" /\ ~MarkersIntact) =>
        /\ vm.status = "err"
        /\ vm.bytecode = <<>>

\* the case C21 fails on: the stream of `2;` with 2 as its first byte
C21_Failure ==
    /\ input = Root(<<IntLit(2)>>)
    /\ stream # <<>> /\ stream[1] = 2
    /\ vm.status = "panic"
    /\ vm.msg = "Invalid compiled stream"

\* C25: a table lookup treats the lookup key and a stored key as the same key
\* exactly when they are equal as Words (same tag and same datum, strings by
\* content, whatever their addresses or aux bits): the lookup then yields
\* Some(value stored), otherwise None.
C25_KeysByValue ==
    (input.kind = "tablekey" /\ vm.status # "run") =>
        /\ ~Failed
        /\ vm.status = "finalized" =>
              Datum(mem, result[1]) =
                  <<"OptionPtr",
                    HeapObj("option",
                            IF word_eq(KeyHeap, KeyWords[input.a], KeyWords[input.b]) = "true"
                            THEN <<Word_int(4, "Value")>> ELSE <<>>)>>

\* the case C25 fails on: the key "hi" looked up with another "hi"
C25_Failure ==
    /\ input = [kind |-> "tablekey", op |-> "IndexGetThis", a |-> 1, b |-> 2]
    /\ vm.status = "finalized"
    /\ Datum(mem, result[1]) = <<"OptionPtr", HeapObj("option", <<>>)>>

(***************************************************************************)
(* Properties of local variables (Spec)                                    *)
(***************************************************************************)
\* the initializer of every VarDecl of a node list, in source order
RECURSIVE DeclInits(_, _)
DeclInits(children, i) ==
    IF i > Len(children) THEN <<>>
    ELSE LET n == children[i]
             here == IF n.kind = "VarDecl" THEN <<last_child(n)>>
                     ELSE IF n.kind \in {"Scope", "If", "Else"} THEN DeclInits(n.children, 1)
                     ELSE <<>>
         IN here \o DeclInits(children, i + 1)

\* the Word the VM executes next
Current == vm.bytecode[vm.ip + 1]

Executing(opcs) ==
    vm.status = "run" /\ vm.ip < Len(vm.bytecode) /\ opcode(Current) \in opcs

\* C26: when the VM executes a GetLocal with aux = i, locals holds more than
\* i entries and the Word pushed is locals[i], the value of the initializer
\* of the i-th declaration in source order (the one the emitter resolved the
\* identifier to), also after a skipped branch, a scope that was left and
\* inside the declaration's own initializer.
C26_LocalSlots ==
    [][Executing({"GetLocal"}) =>
          LET i == aux(Current)
              init == DeclInits(Statements, 1)[i + 1]
          IN /\ i < Len(vm.vars)
             /\ vm'.status = "run"
             /\ Top(vm') = vm.vars[i + 1]
             /\ init.kind = "Int" => Top(vm') = Word_int(Eval(init), "Value")]_allVars

\* the run C26 fails on: `if false {var y = 4}; var x = 3; x;`
C26_Failure ==
    /\ input = Root(<<IfNode(BoolLit(FALSE), ScopeOf(VarDecl(NameY, 4))),
                      VarDecl(NameX, 3), Leaf("Identifier", NameX)>>)
    /\ vm.status = "panic" /\ vm.msg = "local index out of bounds"
    /\ Len(vm.vars) = 1 /\ aux(vm.bytecode[vm.ip]) = 1

\* the Words under the top of the stack and on top of it
Lhs == vm.stack[Len(vm.stack) - 1]

Rhs == Top(vm)

\* C27: Add, Subtract, Multiply, Divide and Modulo on a left operand that is
\* a copy of a local leave the datum of every local slot as it was, and a
\* Float result lives in a heap object that is neither operand's.
C27_LocalsUnchanged ==
    [][(/\ Executing(ArithmeticKinds) /\ Len(vm.stack) >= 2
        /\ \E k \in 1..Len(vm.vars) : vm.vars[k] = Lhs) =>
          /\ Len(vm'.vars) = Len(vm.vars)
          /\ \A k \in 1..Len(vm.vars) : Datum(mem', vm'.vars[k]) = Datum(mem, vm.vars[k])
          /\ (vm'.status = "run" /\ tag(Top(vm')) = "FloatPtr") =>
                value(Top(vm')) \notin {value(Lhs), value(Rhs)}]_allVars

\* the run C27 fails on: after `var x = 1.5; x + 0.25;` the local x holds
\* 7/4, in the heap object that also holds the result
C27_Failure ==
    /\ input \in LocalArithmeticPrograms /\ Statements[2].kind = "Add"
    /\ vm.status = "ok" /\ Len(vm.vars) = 1 /\ Len(vm.stack) = 2
    /\ tag(vm.vars[1]) = "FloatPtr"
    /\ vm.vars[1] = Top(vm)
    /\ Datum(mem, vm.vars[1])[2].val = <<7, 4>>

\* C28: while the VM runs emitted bytecode, every Word on the operand stack
\* and every Word in locals has opcode Value.
C28_StackHoldsValues ==
    vm.status # "none" =>
        /\ \A i \in 1..Len(vm.stack) : opcode(vm.stack[i]) = "Value"
        /\ \A i \in 1..Len(vm.vars) : opcode(vm.vars[i]) = "Value"

\* a run with two Words on the stack and one in locals: `var x = 3; x + 2 * 4;`
\* before its Add
C28_Witness ==
    /\ input \in LocalArithmeticPrograms /\ Statements[2].kind = "Add"
    /\ vm.status = "run" /\ Len(vm.stack) = 3 /\ vm.vars = <<Word_int(3, "Value")>>
    /\ opcode(Current) = "Add"

(***************************************************************************)
(* Properties of the REPL (SpecRepl)                                       *)
(***************************************************************************)
\* the step in which the loop body comes to its end
Served == repl.status \in {"reading", "compiling"} /\ repl' # repl /\ repl'.status # "compiling"

\* the accumulated source before the line being served was typed
Before ==
    IF repl.status = "compiling" THEN SubSeq(repl.source, 1, Len(repl.source) - 1)
    ELSE repl.source

\* C22: after a line whose lexing, parsing, emission, loading or execution
\* fails the REPL has printed the diagnostic and reads the next line; the
\* loop ends only on `exit`; `help` and `exit` are never added to source.
C22_ReplContinues ==
    [][Served =>
          LET l == repl'.line IN
          /\ (l.cmd = "code" /\ repl'.out[1] # "result") =>
                repl'.status = "reading" /\ repl'.out[1] = "diagnostic"
          /\ repl'.status # "reading" => l = ExitLine
          /\ l \in {ExitLine, HelpLine} => repl'.source = repl.source]_allVars

\* the line C22 fails on: `y;` with no declaration of y ends the loop
C22_Failure ==
    /\ repl.line = Code(Leaf("Identifier", NameY))
    /\ repl.status = "panicked"
    /\ repl.out = <<"panic", "did not find varname in already defined vars">>

\* what the loop body prints for a source: the whole pass as one function
Outcome(source) ==
    IF ~SourceParses(source) THEN <<"diagnostic", "syntax">>
    ELSE LET debug == build = "debug"
             e == emit(Emitter_new(Root(SourceNodes(source))), debug)
             loaded == from_compiled_stream(write_to_stream(e))
             ran == run(loaded, <<>>, debug)
             f == finalize(ran.vm, debug)
         IN IF e.status # "emitted" THEN report(repl, e, NoVM, <<>>, <<>>).out
            ELSE IF ran.vm.status # "ok" THEN report(repl, e, ran.vm, ran.heap, <<>>).out
            ELSE report(repl, e, f.vm, ran.heap, f.result).out

\* the lines of a source whose pass printed a result
RECURSIVE Successful(_, _)
Successful(source, k) ==
    IF k = 0 THEN <<>>
    ELSE Successful(source, k - 1)
            \o (IF Outcome(SubSeq(source, 1, k))[1] = "result" THEN <<source[k]>> ELSE <<>>)

\* C30: the accumulated source holds only lines whose pass succeeded, and a
\* line that is valid after the earlier successful lines is evaluated and
\* its result printed, also after a line that produced an error.
C30_GoodSource ==
    [][Served =>
          LET l == repl'.line
              good == Successful(Before, Len(Before))
          IN /\ repl'.source = Successful(repl'.source, Len(repl'.source))
             /\ (l.cmd = "code" /\ Outcome(Append(good, l))[1] = "result") =>
                   repl'.out = Outcome(Append(good, l))]_allVars

\* the lines C30 fails on: `2 / 0;` then `3;` prints the diagnostic of the
\* division again
C30_Failure ==
    /\ repl.source = <<Code(Bin("Divide", IntLit(2), IntLit(0))), Code(IntLit(3))>>
    /\ repl.status = "reading"
    /\ repl.out = <<"diagnostic", "division by zero">>
====
